---------------------------- MODULE Spec2Model ----------------------------
(***************************************************************************)
(* Model of the xchainjs client library: the generic Client/Wallet         *)
(* lifecycle (xchain-client/src/client.ts), the UTXO clients' transfer and *)
(* fee-rate code (bitcoin, litecoin, bitcoincash) and the index-taking     *)
(* operations of the Ethereum client.                                      *)
(*                                                                         *)
(* Every async method is cut at its awaits: one action per segment that    *)
(* runs without suspending.  A call that a segment makes runs, inside that *)
(* segment, up to the callee's own first await.                            *)
(*                                                                         *)
(* Specifications:                                                         *)
(*   Spec        unlock, purgeClient and a UTXO transfer interleaved       *)
(*   SpecLife    two unlocks racing with purgeClient, and getAddress       *)
(*   SpecCreate  the factory made by bindFactory (init hooks, unlock)      *)
(*   SpecOps     index-taking operations called one after another          *)
(*   SpecFees    the fee-rate schedules of the UTXO clients                *)
(*   SpecBch     the Bitcoin Cash client's operations, one after another   *)
(*   SpecHistory getTransactions of the bitcoin, litecoin, Ethereum clients*)
(*   SpecDerive  getAddress while unlock and purgeClient are under way     *)
(*   SpecPlan    the plans of transaction building (coin selection)        *)
(*   SpecTransfer litecoin and bitcoin transfers with every params         *)
(*   SpecScan    the operations that enumerate, await by await             *)
(*   SpecScanFair  the same, every request being answered in the end       *)
(***************************************************************************)
EXTENDS Integers, Sequences, FiniteSets, TLC

\* ------------------------------------------------------------------ bounds
MaxWallets == 2      \* wallet handles the wallet factories may build in a run
MaxDepth == 2        \* subclass levels below the base Client in a class hierarchy
MaxFeePerKb == 40    \* largest of the small fee estimates (per kilobyte) sampled
MaxOpsWallets == 1   \* wallets built while the operations are called in sequence
MaxTxs == 12         \* transactions the explorer reports for an address
MaxIndex == 11       \* largest wallet index an address is asked for
MaxUtxos == 2        \* unspent outputs the explorer reports for the sender
MaxPages == 3        \* pages of unspent outputs the explorer holds for an address
MaxAssets == 2       \* assets a balance is asked for

\* ------------------------------------------------------------ wallet index
\* A JavaScript value used as a wallet index: the number n + (half ? 0.5 : 0),
\* huge saying that its magnitude is beyond Number.MAX_SAFE_INTEGER (2^53 - 1);
\* or, with given = FALSE, undefined (the argument was left out).
Idx(k) == [given |-> TRUE, n |-> k, half |-> FALSE, huge |-> FALSE]

Indices ==
    { Idx(k) : k \in {-1, 0, 1} }
        \cup { [given |-> TRUE, n |-> 1, half |-> TRUE, huge |-> FALSE],
               [given |-> TRUE, n |-> 1, half |-> FALSE, huge |-> TRUE] }

IsSafeInteger(x) == ~x.half /\ ~x.huge

\* Number.isSafeInteger(index) && index >= 0
IsValidIndex(x) == IsSafeInteger(x) /\ x.n >= 0

\* `index = 0` default parameter, `params.walletIndex ?? 0`
Undefined == [given |-> FALSE, n |-> 0, half |-> FALSE, huge |-> FALSE]
IndexInputs == Indices \cup {Undefined}
DefaultIndex(x) == IF x.given THEN x ELSE Idx(0)

\* ----------------------------------------------------------------- wallets
Null == 0
GoodPhrase == "canyon throw labor ..."
BadPhrase == "bad bad phrase"
Phrases == {GoodPhrase, BadPhrase}

validatePhrase(p) == p # BadPhrase

\* `${index}`: the decimal digits of the number ("e+" closing a magnitude
\* beyond the safe integers)
DigitChars == <<"0", "1", "2", "3", "4", "5", "6", "7", "8", "9">>

RECURSIVE Digits(_)
Digits(n) == IF n < 10 THEN <<DigitChars[n + 1]>>
             ELSE Digits(n \div 10) \o <<DigitChars[(n % 10) + 1]>>

IndexString(x) ==
    (IF x.n < 0 THEN <<"-">> ELSE <<>>)
        \o Digits(IF x.n < 0 THEN -x.n ELSE x.n)
        \o (IF x.half THEN <<".", "5">> ELSE <<>>)
        \o (IF x.huge THEN <<"e+">> ELSE <<>>)

\* getFullDerivationPath: (index) => `84'/2'/0'/0/${index}`
getFullDerivationPath(x) == <<"84'/2'/0'/0/">> \o IndexString(x)

VARIABLES
    wallet,        \* Client.wallet: Null or a handle (an index into handles)
    handles,       \* the wallet objects built so far: [phrase, hasPurge]
    purgeCalls,    \* per handle: how often purgeClient took it off the client
    unl,           \* per unlock call slot: its position and locals
    prg,           \* per purgeClient call slot: its position and locals
    unlocked,      \* some unlock has run to `this.wallet = newWallet`
    purgedAfter,   \* a purgeClient called after the last such unlock has settled
    replaced       \* handles taken off by an unlock that then succeeded

lifeVars == <<wallet, handles, purgeCalls, unl, prg, unlocked, purgedAfter, replaced>>

VARIABLES
    xfer,          \* per transfer call slot: its position, parameters and locals
    op,            \* the last call of an operation that is modelled as one step
    bch,           \* the Bitcoin Cash client's phrase field ("" when it has none)
    bchConfig,     \* the Bitcoin Cash client's network, haskoinUrl, nodeUrl fields
    cr,            \* the call of a factory made by bindFactory: position and locals
    scan           \* the call of an enumerating operation: position and locals

Unlockers == {"u1", "u2"}
Purgers == {"p1"}
Transfers == {"t1"}

\* A wallet handle's own operations.  DefaultWallet keeps params and phrase in
\* readonly fields and declares no purge: it derives for as long as it is held.
DefaultWalletUsable(h) == TRUE

\* A wallet that implements the optional purge hook drops its secret there.
PurgeableWalletUsable(h) == purgeCalls[h] = 0

WalletUsable(h) ==
    IF handles[h].hasPurge THEN PurgeableWalletUsable(h) ELSE DefaultWalletUsable(h)

\* A call's outcome, with trace: what it invoked, in order, on the way ("wallet":
\* a wallet handle's derivation or signing; "collaborator": a request to an
\* explorer or node; "derive", "sign": key derivation and signing done by the
\* client itself).
Failed(e, tr) == [ok |-> FALSE, err |-> e, val |-> <<>>, trace |-> tr]
Ok(v, tr) == [ok |-> TRUE, err |-> "", val |-> v, trace |-> tr]

\* Wallet.getAddress(index): the address derived from the phrase at the path
\* (A variant whose address depends on the wallet object that derives it.)
WalletGetAddressPerObject(h, x) ==
    IF WalletUsable(h)
    THEN Ok(<<"address", handles[h].phrase, getFullDerivationPath(x), h>>, <<"wallet">>)
    ELSE Failed("wallet purged", <<"wallet">>)

WalletGetAddress(h, x) ==
    IF WalletUsable(h)
    THEN Ok(<<"address", handles[h].phrase, getFullDerivationPath(x)>>, <<"wallet">>)
    ELSE Failed("wallet purged", <<"wallet">>)

\* Wallet.getLtcKeys / getBtcKeys / getPrivateKey(index)
WalletGetKeys(h, x) ==
    IF WalletUsable(h)
    THEN Ok(<<"key", handles[h].phrase, getFullDerivationPath(x)>>, <<"wallet">>)
    ELSE Failed("wallet purged", <<"wallet">>)

\* Client.getAddress(index = 0)
\* (A variant that validates the index before it looks at the wallet.)
ClientGetAddressIndexFirst(w, input) ==
    LET index == DefaultIndex(input) IN
    IF ~IsValidIndex(index) THEN Failed("index must be a non-negative integer", <<>>)
    ELSE IF w = Null THEN Failed("client must be unlocked", <<>>)
    ELSE WalletGetAddress(w, index)

ClientGetAddress(w, input) ==
    LET index == DefaultIndex(input) IN
    IF w = Null THEN Failed("client must be unlocked", <<>>)
    ELSE IF ~IsValidIndex(index) THEN Failed("index must be a non-negative integer", <<>>)
    ELSE WalletGetAddress(w, index)

\* Call slots at rest.  held: the wallet the client held when an unlock that
\* then failed in its factory was called; a purge slot keeps the handle its
\* last call took off the client (old).
IdleUnlock == [pc |-> "idle", phrase |-> BadPhrase, newWallet |-> Null,
               old |-> Null, held |-> Null, last |-> "none"]
IdlePurge == [pc |-> "idle", old |-> Null, fresh |-> FALSE, last |-> "none"]

\* Handles that some purgeClient has taken off the client.
Detached == { h \in 1..Len(handles) : purgeCalls[h] > 0 }

\* ----------------------------------------------------------- purgeClient
\* Lines 91-93 run without suspending: read the handle, clear the field and
\* call the handle's purge hook (if it has one); then the call awaits the hook.
\* (A variant that calls the hook but leaves the field as it is.)
PurgeHeadKeepsWallet(old) ==
    /\ wallet' = wallet
    /\ purgeCalls' = IF old = Null THEN purgeCalls
                     ELSE [purgeCalls EXCEPT ![old] = @ + 1]

PurgeHead(old) ==
    /\ wallet' = Null
    /\ purgeCalls' = IF old = Null THEN purgeCalls
                     ELSE [purgeCalls EXCEPT ![old] = @ + 1]

\* Whether the awaited `oldWallet?.purge?.()` can reject: only a hook can.
\* (A variant in which the await can reject whatever it awaits.)
HookMayRejectAlways(old) == TRUE

HookMayReject(old) == old # Null /\ handles[old].hasPurge

\* Factory calls in flight that will build a wallet (bounds the handles built).
Building == { u \in Unlockers : unl[u].pc = "factory" /\ validatePhrase(unl[u].phrase) }

PurgeCall(p) ==
    /\ prg[p].pc = "idle"
    /\ PurgeHead(wallet)
    /\ prg' = [prg EXCEPT ![p] = [pc |-> "hook", old |-> wallet,
                                  fresh |-> unlocked, last |-> "none"]]
    /\ UNCHANGED <<handles, unl, unlocked, purgedAfter, replaced>>

\* The hook settles and purgeClient with it.
PurgeDone(p) ==
    /\ prg[p].pc = "hook"
    /\ \E rejects \in BOOLEAN :
        /\ rejects => HookMayReject(prg[p].old)
        /\ prg' = [prg EXCEPT ![p] = [IdlePurge EXCEPT
                        !.old = prg[p].old,
                        !.last = IF rejects THEN "rejected" ELSE "resolved"]]
    /\ purgedAfter' = (purgedAfter \/ prg[p].fresh)
    /\ UNCHANGED <<wallet, handles, purgeCalls, unl, unlocked, replaced>>

\* ---------------------------------------------------------------- unlock
\* Line 86 up to its await: the wallet factory is called.
\* (A variant that discards the current wallet before it calls the factory.)
UnlockCallPurgesFirst(u) ==
    /\ unl[u].pc = "idle"
    /\ \E p \in Phrases :
        /\ validatePhrase(p) => Len(handles) + Cardinality(Building) < MaxWallets
        /\ unl' = [unl EXCEPT ![u] = [IdleUnlock EXCEPT !.pc = "factory", !.phrase = p,
                                                         !.held = wallet]]
    /\ PurgeHead(wallet)
    /\ UNCHANGED <<handles, prg, unlocked, purgedAfter, replaced>>

UnlockCall(u) ==
    /\ unl[u].pc = "idle"
    /\ \E p \in Phrases :
        /\ validatePhrase(p) => Len(handles) + Cardinality(Building) < MaxWallets
        /\ unl' = [unl EXCEPT ![u] = [IdleUnlock EXCEPT !.pc = "factory", !.phrase = p,
                                                         !.held = wallet]]
    /\ UNCHANGED <<wallet, handles, purgeCalls, prg, unlocked, purgedAfter, replaced>>

\* The factory made by DefaultWallet.create(phrase), called with the client's
\* params: the validity check, then `new this(params, phrase)`.  made: the
\* wallet objects constructed on the way; hook: whether the wallet class
\* declares a purge hook.
\* (A variant that constructs the wallet before it checks the phrase.)
WalletCreateThenCheck(phrase, hook) ==
    LET new == [phrase |-> phrase, hasPurge |-> hook] IN
    IF ~validatePhrase(phrase)
    THEN [ok |-> FALSE, err |-> "Invalid phrase", made |-> <<new>>]
    ELSE [ok |-> TRUE, err |-> "", made |-> <<new>>]

WalletCreate(phrase, hook) ==
    IF ~validatePhrase(phrase)
    THEN [ok |-> FALSE, err |-> "Invalid phrase", made |-> <<>>]
    ELSE [ok |-> TRUE, err |-> "", made |-> <<[phrase |-> phrase, hasPurge |-> hook]>>]

\* The factory settles.  When it rejects, unlock rejects at line 86.
\* Otherwise line 87 calls purgeClient, which runs to its await.
UnlockFactoryDone(u) ==
    /\ unl[u].pc = "factory"
    /\ \E hook \in BOOLEAN :
        LET created == WalletCreate(unl[u].phrase, hook) IN
        /\ handles' = handles \o created.made
        /\ IF ~created.ok
           THEN /\ unl' = [unl EXCEPT ![u] = [IdleUnlock EXCEPT !.last = created.err,
                                                                !.held = unl[u].held]]
                /\ UNCHANGED <<wallet, purgeCalls>>
           ELSE /\ PurgeHead(wallet)
                /\ unl' = [unl EXCEPT ![u].pc = "purging", ![u].old = wallet,
                                      ![u].held = Null,
                                      ![u].newWallet = Len(handles) + 1]
    /\ UNCHANGED <<prg, unlocked, purgedAfter, replaced>>

\* The awaited purgeClient settles.  If it rejects, unlock rejects at line 87;
\* otherwise line 88 stores the new wallet.
UnlockPurgeDone(u) ==
    /\ unl[u].pc = "purging"
    /\ \E rejects \in BOOLEAN :
        /\ rejects => HookMayReject(unl[u].old)
        /\ IF rejects
           THEN /\ unl' = [unl EXCEPT ![u] = [IdleUnlock EXCEPT !.last = "purge rejected"]]
                /\ UNCHANGED <<wallet, unlocked, purgedAfter, replaced, prg>>
           ELSE /\ wallet' = unl[u].newWallet
                /\ unlocked' = TRUE
                /\ purgedAfter' = FALSE
                /\ prg' = [p \in Purgers |-> [prg[p] EXCEPT !.fresh = FALSE]]
                /\ replaced' = IF unl[u].old = Null THEN replaced
                               ELSE replaced \cup {unl[u].old}
                /\ unl' = [unl EXCEPT ![u] = [IdleUnlock EXCEPT !.last = "resolved"]]
    /\ UNCHANGED <<handles, purgeCalls>>

LifeInit ==
    /\ wallet = Null
    /\ handles = <<>>
    /\ purgeCalls = [h \in 1..MaxWallets |-> 0]
    /\ unl = [u \in Unlockers |-> IdleUnlock]
    /\ prg = [p \in Purgers |-> IdlePurge]
    /\ unlocked = FALSE
    /\ purgedAfter = FALSE
    /\ replaced = {}

\* ------------------------------------------------------------ fee rates
\* Numbers are held in units of 1/2000, which keeps every product below exact;
\* Num(n) is the integer n.
Unit == 2000
Num(n) == n * Unit
DEFAULT_SUGGESTED_TRANSACTION_FEE == 127

\* getSuggestedTxFee: `response.data.feePerKb / 1000`, or the default when the
\* request fails.
\* (A variant without the catch clause's default.)
getSuggestedTxFeeNoDefault(requestOk, feePerKb) == (feePerKb * Unit) \div 1000

getSuggestedTxFee(requestOk, feePerKb) ==
    IF requestOk THEN (feePerKb * Unit) \div 1000
    ELSE Num(DEFAULT_SUGGESTED_TRANSACTION_FEE)

\* x * 5, x * 1, x * 0.5
Times5(x) == x * 5
Times1(x) == x * 1
TimesHalf(x) == (x * 5) \div 10

\* bitcoin getFeesWithRates(...).rates
BtcFeeRates(txFee) ==
    [fastest |-> Times5(txFee), fast |-> Times1(txFee), average |-> TimesHalf(txFee)]

\* litecoin getFeeRates
LtcFeeRates(nextBlockFeeRate) ==
    [average |-> TimesHalf(nextBlockFeeRate), fast |-> Times1(nextBlockFeeRate),
     fastest |-> Times5(nextBlockFeeRate)]

\* bitcoincash getFeesWithRates(...).rates
BchFeeRates(nextBlockFeeRate) ==
    [fastest |-> Times5(nextBlockFeeRate), fast |-> Times1(nextBlockFeeRate),
     average |-> TimesHalf(nextBlockFeeRate)]

\* (A variant with the multipliers of average and fastest exchanged.)
FeeRatesSlowFirst(kind, sample) ==
    [average |-> Times5(sample), fast |-> Times1(sample), fastest |-> TimesHalf(sample)]

FeeRates(kind, sample) ==
    CASE kind = "btc" -> BtcFeeRates(sample)
      [] kind = "ltc" -> LtcFeeRates(sample)
      [] kind = "bch" -> BchFeeRates(sample)

UtxoKinds == {"btc", "ltc", "bch"}

\* The fee estimates (per kilobyte) the collaborator may report.
FeePerKbs == (0..MaxFeePerKb) \cup {20000}

\* -------------------------------------------------------------- transfer
\* The UTXO clients built on Client: litecoin (litecoin/src/client.ts) and
\* bitcoin.  TxParams as far as transfer reads them: walletIndex, feeRate (left
\* out, or a number) and memo (left out, or a string).
NoFeeRate == [given |-> FALSE, v |-> 0]
Rate(v) == [given |-> TRUE, v |-> v]
FeeRateInputs == {NoFeeRate, Rate(0), Rate(Num(3))}

NoMemo == [given |-> FALSE, text |-> ""]
Memo(s) == [given |-> TRUE, text |-> s]
Memos == {NoMemo, Memo(""), Memo("SWAP:BNB.BNB")}

TxParams == [walletIndex : IndexInputs, feeRate : FeeRateInputs, memo : Memos]

\* The params with a fee rate or none, and no memo.
PlainTxParams == [walletIndex : IndexInputs, feeRate : {NoFeeRate, Rate(Num(3))},
                  memo : {NoMemo}]

\* `params.memo ? ... : ...`: undefined and the empty string are falsy
Truthy(memo) == memo.given /\ memo.text # ""

\* The transaction ids a node may answer a broadcast with.
TxIds == {"txid a", "txid b"}

\* A transfer call.  input, feeRate, memo: its params.  rate: the feeRate handed
\* to Utils.buildTx, pending: its spendPendingUTXO ("unset" when the call
\* passes none).  touched: what the call has invoked so far; steps: its steps
\* in order; signed: "no", or at signing whether the signing key's wallet was
\* still the client's ("held") or had been taken off it ("stale"); hash: what
\* broadcastTx answered; failed: the step that failed; last: how the call ended.
\* began: the wallet the client held when the call was made; senderFrom,
\* keyFrom: the wallet that this.wallet gave when the sender address and the
\* signing keys were asked for; sender, key: what they answered.
IdleTransfer == [pc |-> "idle", kind |-> "ltc", input |-> Undefined, began |-> Null,
                 feeRate |-> NoFeeRate, memo |-> NoMemo,
                 rate |-> NoFeeRate, pending |-> "unset",
                 keyFrom |-> Null, senderFrom |-> Null, sender |-> <<>>, key |-> <<>>,
                 touched |-> {}, steps |-> <<>>,
                 signed |-> "no", hash |-> "none", failed |-> "none",
                 last |-> "none", purged |-> FALSE]

Kinds == {"ltc", "btc"}

\* The call settles: its locals are gone, what it had invoked and how it
\* ended stay on record.
Settle(t, base, e) ==
    [base EXCEPT ![t] = [IdleTransfer EXCEPT !.touched = base[t].touched,
                                             !.steps = base[t].steps,
                                             !.hash = base[t].hash,
                                             !.last = e,
                                             !.purged = base[t].purged]]

\* a step throws or rejects: so does the call
Reject(t, base, e) ==
    [Settle(t, base, e) EXCEPT ![t].failed =
        IF base[t].steps = <<>> THEN "guard" ELSE base[t].steps[Len(base[t].steps)]]

\* `sender: await this.getAddress(index)`: the call runs Client.getAddress to the
\* wallet's getAddress, on the wallet the client holds now.
CallGetAddress(t, base) ==
    LET r == ClientGetAddress(wallet, base[t].input)
        seen == [base EXCEPT ![t].touched = @ \cup {r.trace[k] : k \in 1..Len(r.trace)},
                             ![t].steps = Append(@, "sender")]
    IN
    IF r.ok
    THEN [seen EXCEPT ![t].pc = "sender", ![t].senderFrom = wallet, ![t].sender = r.val]
    ELSE Reject(t, seen, r.err)

\* bitcoin: `const spendPendingUTXO: boolean = params.memo ? false : true`
SpendPendingUTXO(memo) == IF Truthy(memo) THEN "false" ELSE "true"

\* The arguments of Utils.buildTx besides the params and the sender: feeRate,
\* and with bitcoin spendPendingUTXO; litecoin passes no such argument.
BuildArgs(t, base, rate) ==
    [base EXCEPT ![t].rate = rate,
                 ![t].pending = IF base[t].kind = "btc"
                                THEN SpendPendingUTXO(base[t].memo) ELSE "unset"]

\* `params.feeRate ?? (await this.getFeeRates())[FeeOption.Fast]`
ResolveFeeRate(t, base) ==
    LET fee == [base EXCEPT ![t].steps = Append(@, "fee")] IN
    IF base[t].feeRate.given
    THEN CallGetAddress(t, BuildArgs(t, fee, base[t].feeRate))
    ELSE [fee EXCEPT ![t].pc = "feeRates", ![t].touched = @ \cup {"collaborator"}]

\* `this.wallet.getLtcKeys` with this.wallet null
NullReadError == "TypeError: this.wallet is null"

\* `await this.wallet.getLtcKeys(index)` / getBtcKeys
CallGetKeys(t, base) ==
    LET keys == [base EXCEPT ![t].steps = Append(@, "keys")] IN
    IF wallet = Null THEN Reject(t, keys, NullReadError)
    ELSE IF ~WalletGetKeys(wallet, DefaultIndex(base[t].input)).ok
    THEN Reject(t, [keys EXCEPT ![t].touched = @ \cup {"wallet"}], "wallet purged")
    ELSE [keys EXCEPT ![t].pc = "keys", ![t].keyFrom = wallet,
                      ![t].key = WalletGetKeys(wallet, DefaultIndex(base[t].input)).val,
                      ![t].touched = @ \cup {"wallet"}]

\* purged: the call is made after an unlock and then a purgeClient have settled
TransferStart(t, kind, params) ==
    [xfer EXCEPT ![t] = [IdleTransfer EXCEPT !.kind = kind, !.input = params.walletIndex,
                                             !.began = wallet,
                                             !.feeRate = params.feeRate,
                                             !.memo = params.memo,
                                             !.purged = purgedAfter]]

\* transfer up to its first await: the two guards that open it, then its
\* first call.  The value is xfer after it.
\* (A variant without the index guard.)
TransferEntryUnchecked(t, kind, params) ==
    LET start == TransferStart(t, kind, params) IN
    IF wallet = Null THEN Reject(t, start, "client must be unlocked")
    ELSE IF kind = "ltc" THEN CallGetKeys(t, start)
    ELSE ResolveFeeRate(t, start)

TransferEntry(t, kind, params) ==
    LET start == TransferStart(t, kind, params) IN
    IF wallet = Null THEN Reject(t, start, "client must be unlocked")
    ELSE IF ~IsValidIndex(DefaultIndex(params.walletIndex))
    THEN Reject(t, start, "index must be a non-negative integer")
    ELSE IF kind = "ltc" THEN CallGetKeys(t, start)
    ELSE ResolveFeeRate(t, start)

TransferCall(t, kind, params) ==
    /\ xfer[t].pc = "idle"
    /\ xfer' = TransferEntry(t, kind, params)

\* The fee estimates a transfer's getFeeRates may be answered with.
TransferFeePerKbs == {0, 20000}

\* getFeeRates settles: its fast tier is the fee rate
FeeRatesDone(t) ==
    /\ xfer[t].pc = "feeRates"
    /\ \E requestOk \in BOOLEAN, feePerKb \in TransferFeePerKbs :
        LET rates == FeeRates(xfer[t].kind, getSuggestedTxFee(requestOk, feePerKb)) IN
        xfer' = CallGetAddress(t, BuildArgs(t, xfer, Rate(rates.fast)))

\* getAddress settles with the sender address; Utils.buildTx is called
SenderDone(t) ==
    /\ xfer[t].pc = "sender"
    /\ xfer' = [xfer EXCEPT ![t].pc = "build", ![t].touched = @ \cup {"collaborator"},
                            ![t].steps = Append(@, "build")]

\* psbt.signAllInputs(keys), then Utils.broadcastTx is called
SignAndBroadcast(t, base) ==
    [base EXCEPT ![t].pc = "broadcast",
                 ![t].signed = IF base[t].keyFrom = wallet THEN "held" ELSE "stale",
                 ![t].steps = @ \o <<"sign", "broadcast">>]

\* Utils.buildTx settles.  litecoin signs with the keys it fetched first and
\* broadcasts; bitcoin now asks this.wallet for the keys.
BuildDone(t) ==
    /\ xfer[t].pc = "build"
    /\ \E built \in BOOLEAN :
        xfer' = IF ~built THEN Reject(t, xfer, "buildTx failed")
                ELSE IF xfer[t].kind = "ltc" THEN SignAndBroadcast(t, xfer)
                ELSE CallGetKeys(t, xfer)

\* getLtcKeys / getBtcKeys settles
KeysDone(t) ==
    /\ xfer[t].pc = "keys"
    /\ xfer' = IF xfer[t].kind = "ltc" THEN ResolveFeeRate(t, xfer)
               ELSE SignAndBroadcast(t, xfer)

\* Utils.broadcastTx settles: `return await Utils.broadcastTx(...)`
\* (A variant that returns the transaction's hex.)
BroadcastDoneReturnsHex(t) ==
    /\ xfer[t].pc = "broadcast"
    /\ \E sent \in BOOLEAN, id \in TxIds :
        xfer' = IF sent THEN Settle(t, [xfer EXCEPT ![t].hash = id], "txHex")
                ELSE Reject(t, xfer, "broadcastTx failed")

BroadcastDone(t) ==
    /\ xfer[t].pc = "broadcast"
    /\ \E sent \in BOOLEAN, id \in TxIds :
        xfer' = IF sent THEN Settle(t, [xfer EXCEPT ![t].hash = id], id)
                ELSE Reject(t, xfer, "broadcastTx failed")

\* ------------------------------------------------- bindFactory's factory
\* A class hierarchy: level 0 is the base Client, whose init is the empty
\* hook of line 65; levels 1..depth are the subclasses, the class instantiated
\* being level depth; defines are the levels that declare an init of their own.
\* called: the levels whose init has been invoked, in order; out: whether the
\* client has been returned.
IdleCreate == [pc |-> "idle", depth |-> 1, defines |-> {}, withFactory |-> FALSE,
               called |-> <<>>, settled |-> 0, initFailed |-> FALSE, out |-> FALSE]

\* `prototype.init` looked up on the prototype object of level k: the nearest
\* declaration at or above it.
ResolvedInit(defines, k) ==
    CHOOSE l \in (defines \cup {0}) :
        l <= k /\ \A m \in (defines \cup {0}) : m <= k => m <= l

\* Lines 73-76.  The walk starts at the instance `out`, goes up through the
\* prototype of every level and stops at Object.prototype; 'init' in prototype
\* holds for each of them (by inheritance), and unshift reverses the walk.
InitsOf(depth, defines) ==
    [i \in 1..(depth + 2) |->
        ResolvedInit(defines, IF i = depth + 2 THEN depth ELSE i - 1)]

\* `await init.call(out)` for the next init of the list, or, with the list
\* done, line 80: `if (walletFactory) await out.unlock(walletFactory)`, which
\* runs unlock to its await; else line 81.
CreateProceed(base) ==
    IF Len(base.called) < Len(InitsOf(base.depth, base.defines))
    THEN /\ cr' = [base EXCEPT !.pc = "init",
                    !.called = Append(@, InitsOf(base.depth, base.defines)[Len(@) + 1])]
         /\ UNCHANGED lifeVars
    ELSE IF base.withFactory
    THEN /\ cr' = [base EXCEPT !.pc = "unlock"]
         /\ UnlockCall("u1")
    ELSE /\ cr' = [base EXCEPT !.pc = "returned", !.out = TRUE]
         /\ UNCHANGED lifeVars

\* Line 72, the walk, and the first init called.
CreateCall ==
    /\ cr.pc = "idle"
    /\ \E depth \in 1..MaxDepth, withFactory \in BOOLEAN :
        \E defines \in SUBSET (1..depth) :
            CreateProceed([IdleCreate EXCEPT !.depth = depth, !.defines = defines,
                                             !.withFactory = withFactory])
    /\ UNCHANGED <<xfer, op, bch, bchConfig, scan>>

\* The awaited init settles.  A subclass's hook may reject; the base one
\* cannot.
CreateInitDone ==
    /\ cr.pc = "init"
    /\ \E rejects \in BOOLEAN :
        /\ rejects => cr.called[Len(cr.called)] # 0
        /\ IF rejects
           THEN /\ cr' = [cr EXCEPT !.pc = "rejected", !.initFailed = TRUE]
                /\ UNCHANGED lifeVars
           ELSE CreateProceed([cr EXCEPT !.settled = @ + 1])
    /\ UNCHANGED <<xfer, op, bch, bchConfig, scan>>

\* The awaited unlock has settled: line 80 rejects the call, or line 81
\* returns the client.
\* (A variant that returns the client whatever became of the unlock.)
CreateUnlockDoneSwallows ==
    /\ cr.pc = "unlock"
    /\ unl["u1"].pc = "idle"
    /\ cr' = [cr EXCEPT !.pc = "returned", !.out = TRUE]
    /\ UNCHANGED lifeVars
    /\ UNCHANGED <<xfer, op, bch, bchConfig, scan>>

CreateUnlockDone ==
    /\ cr.pc = "unlock"
    /\ unl["u1"].pc = "idle"
    /\ cr' = IF unl["u1"].last = "resolved"
             THEN [cr EXCEPT !.pc = "returned", !.out = TRUE]
             ELSE [cr EXCEPT !.pc = "rejected"]
    /\ UNCHANGED lifeVars
    /\ UNCHANGED <<xfer, op, bch, bchConfig, scan>>

\* ------------------------------------------------------ one-step calls
\* name: the operation; input: its wallet index argument; sample: the fee
\* sample it was given by the collaborator (fee rates only); res: its outcome.
\* args: what else the call was given and what its collaborators did
\* (requestOk: the fee-estimate request succeeded; feePerKb: its answer;
\* feeRate, memo: the params of a transfer).  built: the arguments the call
\* handed to buildTx, if it came to call it (sender: the sender address among
\* them).  key: the key the call signed with, if it came to sign.
NoArgs == [requestOk |-> TRUE, feePerKb |-> 0, feeRate |-> NoFeeRate, memo |-> NoMemo]

NoBuild == [called |-> FALSE, feeRate |-> 0, pending |-> "unset", sender |-> <<>>]

NoCall == [name |-> "none", input |-> Undefined, sample |-> 0, res |-> Failed("", <<>>),
           args |-> NoArgs, built |-> NoBuild, key |-> <<>>]

Called(name, input, res) ==
    [name |-> name, input |-> input, sample |-> 0, res |-> res, args |-> NoArgs,
     built |-> NoBuild, key |-> <<>>]

\* A call of an operation that enumerates: getUnspentTxs and
\* getConfirmedUnspentTxs of sochain-api, getTransactions of bitcoin and
\* litecoin, the testnet getBalance of the Ethereum client.  params: what the
\* call was given; reqs: the
\* startingFromTxId of each getUnspentTxs request made (<<>> for none); pages:
\* the lists received; items: what is enumerated; out: the items whose request
\* is outstanding; got: per item "pending", or what its request was answered
\* ("yes", "no" for is_confirmed: true, false; "failed"); log: the requests
\* made for items, their settling and the delays, in order; res: the outcome.
IdleScan == [pc |-> "idle", kind |-> "none", params |-> <<>>, reqs |-> <<>>, pages |-> <<>>,
             items |-> <<>>, out |-> {}, got |-> <<>>, log |-> <<>>,
             res |-> Failed("", <<>>)]

\* Client.getAddress(index) called from outside
GetAddress(input) ==
    op' = Called("getAddress", input, ClientGetAddress(wallet, input))

\* --------------------------------------------------- the Ethereum client
\* r, then (if r succeeded) a request to the provider / explorer, which
\* succeeds or not (netOk).
ThenRequest(r, netOk) ==
    IF ~r.ok THEN r
    ELSE IF netOk THEN Ok("response", r.trace \o <<"collaborator">>)
    ELSE Failed("request failed", r.trace \o <<"collaborator">>)

\* the outcome r of a later step, after the steps that left trace tr
After(tr, r) == [r EXCEPT !.trace = tr \o @]

\* `this.wallet.getSigner(index, this.provider)`: the wallet is handed the
\* index as it is.  What the wallet makes of an index that is not a
\* non-negative safe integer is open (libOk: it derives all the same).
EthWalletGetSigner(h, x, libOk) ==
    IF WalletUsable(h) /\ (IsValidIndex(x) \/ libOk)
    THEN Ok(<<"signer", handles[h].phrase, getFullDerivationPath(x)>>, <<"wallet">>)
    ELSE Failed("wallet failed", <<"wallet">>)

\* getSigner(index = 0)
EthGetSigner(w, input, libOk) ==
    IF w = Null THEN Failed("client must be unlocked", <<>>)
    ELSE EthWalletGetSigner(w, DefaultIndex(input), libOk)

\* getVoidSigner(index)
EthGetVoidSigner(w, input) ==
    IF w = Null THEN Failed("client must be unlocked", <<>>)
    ELSE ClientGetAddress(w, input)

\* call(index, ...): getSigner, then the contract function
EthCall(w, input, libOk, netOk) == ThenRequest(EthGetSigner(w, input, libOk), netOk)

\* callOffline(index, ...): getVoidSigner, then the contract function
EthCallOffline(w, input, netOk) == ThenRequest(EthGetVoidSigner(w, input), netOk)

\* estimateCall(..., index = 0): getVoidSigner, then contract.estimateGas
EthEstimateCall(w, input, netOk) == ThenRequest(EthGetVoidSigner(w, input), netOk)

\* estimateApprove({walletIndex}): `index ??= 0`; the arguments of estimateCall
\* are evaluated first, `await this.getAddress(index)` among them.
EthEstimateApprove(w, input, netOk) ==
    LET index == DefaultIndex(input)
        from == ClientGetAddress(w, index)
    IN  IF ~from.ok THEN from
        ELSE After(from.trace, EthEstimateCall(w, index, netOk))

\* approve({walletIndex, feeOptionKey}): `index ??= 0`; with a fee option,
\* estimateGasPrices (its failure is caught); estimateApprove (its failure is
\* caught); `from: await this.getAddress(index)`; call.
EthApprove(w, input, feeOption, libOk, netOk) ==
    LET index == DefaultIndex(input)
        prices == IF feeOption THEN <<"collaborator">> ELSE <<>>
        limit == After(prices, EthEstimateApprove(w, index, netOk))
        from == After(limit.trace, ClientGetAddress(w, index))
    IN  IF ~from.ok THEN from
        ELSE After(from.trace, EthCall(w, index, libOk, netOk))

\* estimateGasLimit({walletIndex}): `index ??= 0`, getAddress, then estimateGas
EthEstimateGasLimit(w, input, netOk) ==
    ThenRequest(ClientGetAddress(w, DefaultIndex(input)), netOk)

\* transfer({walletIndex, feeOptionKey}) of an ERC20 token (erc20) or of ETH
EthTransfer(w, input, feeOption, erc20, libOk, netOk) ==
    LET index == DefaultIndex(input)
        prices == IF feeOption THEN <<"collaborator">> ELSE <<>>
        limit == IF feeOption THEN After(prices, EthEstimateGasLimit(w, index, netOk)).trace
                 ELSE <<>>
        nonce == After(limit, ThenRequest(ClientGetAddress(w, index), netOk))
        chain == ThenRequest(nonce, netOk)
        signer == IF ~chain.ok THEN chain
                  ELSE After(chain.trace, EthWalletGetSigner(w, index, libOk))
        signed == IF ~signer.ok THEN signer
                  ELSE Ok("signedTx", signer.trace \o <<"wallet">>)
    IN  IF w = Null THEN Failed("client must be unlocked", <<>>)
        ELSE IF ~IsValidIndex(index)
        THEN Failed("index must be a non-negative integer", <<>>)
        ELSE IF erc20 THEN After(limit, EthCall(w, index, libOk, netOk))
        ELSE ThenRequest(signed, netOk)

EthOps == {"getSigner", "call", "callOffline", "estimateCall", "approve",
           "estimateApprove", "estimateGasLimit", "transfer"}

EthResult(name, w, input, flag, erc20, libOk, netOk) ==
    CASE name = "getSigner" -> EthGetSigner(w, input, libOk)
      [] name = "call" -> EthCall(w, input, libOk, netOk)
      [] name = "callOffline" -> EthCallOffline(w, input, netOk)
      [] name = "estimateCall" -> EthEstimateCall(w, input, netOk)
      [] name = "approve" -> EthApprove(w, input, flag, libOk, netOk)
      [] name = "estimateApprove" -> EthEstimateApprove(w, input, netOk)
      [] name = "estimateGasLimit" -> EthEstimateGasLimit(w, input, netOk)
      [] name = "transfer" -> EthTransfer(w, input, flag, erc20, libOk, netOk)

\* The choices open in a call: only those the operation depends on vary.
EthChoices(name) ==
    { c \in [flag : BOOLEAN, erc20 : BOOLEAN, libOk : BOOLEAN, netOk : BOOLEAN] :
        /\ name \notin {"approve", "transfer"} => ~c.flag
        /\ name # "transfer" => ~c.erc20
        /\ name \notin {"getSigner", "call", "approve", "transfer"} => c.libOk
        /\ name = "getSigner" => c.netOk }

\* One call of an Ethereum client operation, run to its end.
EthOp ==
    \E name \in EthOps, input \in IndexInputs :
        \E c \in EthChoices(name) :
            op' = Called("eth." \o name, input,
                         EthResult(name, wallet, input, c.flag, c.erc20, c.libOk, c.netOk))

\* ------------------------------------------------ the Bitcoin Cash client
\* getBCHKeys(phrase, derivationPath): seed and key pair derived from the
\* phrase.  Whether the library derives on a path whose last component is not
\* a valid index is open (libOk).
getBCHKeys(phrase, x, libOk) ==
    IF IsValidIndex(x) \/ libOk
    THEN Ok(<<"key", phrase, getFullDerivationPath(x)>>, <<"derive">>)
    ELSE Failed("Getting key pair failed", <<"derive">>)

\* getAddress(index = 0)
BchGetAddress(phrase, input, libOk) ==
    LET keys == getBCHKeys(phrase, DefaultIndex(input), libOk) IN
    IF phrase = "" THEN Failed("Phrase must be provided", <<>>)
    ELSE IF keys.ok
    THEN Ok(<<"address", phrase, getFullDerivationPath(DefaultIndex(input))>>, keys.trace)
    ELSE Failed("Address not defined", keys.trace)

\* `params.walletIndex || 0`: undefined and 0 give 0
OrZero(x) == IF x.given /\ x # Idx(0) THEN x ELSE Idx(0)

\* `params.feeRate || (await this.getFeeRates()).fast`: the rate given unless
\* it is falsy (left out, or 0), else the fast tier, a request
BchFeeRate(params, sample, netOk) ==
    IF params.feeRate.given /\ params.feeRate.v # 0
    THEN Ok(params.feeRate.v, <<>>)
    ELSE After(<<"collaborator">>,
               IF netOk THEN Ok(BchFeeRates(sample).fast, <<>>)
               ELSE Failed("request failed", <<>>))

\* transfer(params): the fee rate, the sender `await this.getAddress()`,
\* buildTx (a request) with the params, the fee rate and the sender, the keys
\* of the index's path, signing, broadcastTx (a request).  res: the outcome;
\* built: what buildTx was handed; key: the key pair signed with.
BchTransfer(phrase, params, sample, libOk, netOk) ==
    LET index == OrZero(params.walletIndex)
        rate == BchFeeRate(params, sample, netOk)
        sender == IF ~rate.ok THEN rate
                  ELSE After(rate.trace, BchGetAddress(phrase, Undefined, libOk))
        built == ThenRequest(sender, netOk)
        keys == IF ~built.ok THEN built
                ELSE After(built.trace, getBCHKeys(phrase, index, libOk))
        signed == IF ~keys.ok THEN keys ELSE Ok("txHex", keys.trace \o <<"sign">>)
    IN  [res |-> ThenRequest(signed, netOk),
         built |-> IF sender.ok
                   THEN [called |-> TRUE, feeRate |-> rate.val, pending |-> "unset",
                         sender |-> sender.val]
                   ELSE NoBuild,
         key |-> IF built.ok /\ keys.ok THEN keys.val ELSE <<>>]

\* setPhrase(phrase, walletIndex = 0)
BchSetPhrase ==
    \E phrase \in Phrases, input \in IndexInputs, libOk \in BOOLEAN :
        IF ~validatePhrase(phrase)
        THEN /\ op' = Called("bch.setPhrase", input, Failed("Invalid phrase", <<>>))
             /\ bch' = bch
        ELSE /\ bch' = phrase
             /\ op' = Called("bch.setPhrase", input, BchGetAddress(phrase, input, libOk))

\* purgeClient()
BchPurgeClient ==
    /\ bch' = ""
    /\ op' = Called("bch.purgeClient", Undefined, Ok("this", <<>>))

\* The fee-rate sample a Bitcoin Cash transfer's getFeeRates is answered with.
BchSamples == {Num(20)}

\* getAddress, and transfer with params of P, run to their end
BchOp(P) ==
    /\ \E libOk \in BOOLEAN :
        \/ \E input \in IndexInputs :
                op' = Called("bch.getAddress", input, BchGetAddress(bch, input, libOk))
        \/ \E params \in P, sample \in BchSamples, netOk \in BOOLEAN :
                LET run == BchTransfer(bch, params, sample, libOk, netOk) IN
                op' = [Called("bch.transfer", params.walletIndex, run.res)
                        EXCEPT !.args.feeRate = params.feeRate,
                               !.args.memo = params.memo,
                               !.args.requestOk = netOk,
                               !.sample = sample,
                               !.built = run.built,
                               !.key = run.key]
    /\ bch' = bch

\* The fields the constructor sets from its (default) params, and the
\* alternatives a caller may pass to the setters.
Networks == {"testnet", "mainnet"}
BchDefaults ==
    [network |-> "testnet",
     haskoinUrl |-> [testnet |-> "https://api.haskoin.com/bchtest",
                     mainnet |-> "https://api.haskoin.com/bch"],
     nodeUrl |-> [testnet |-> "https://testnet.bch.thorchain.info",
                  mainnet |-> "https://bch.thorchain.info"]]
rootDerivationPaths == [mainnet |-> "m/44'/145'/0'/0/", testnet |-> "m/44'/1'/0'/0/"]
ClientUrls == {BchDefaults.haskoinUrl, BchDefaults.nodeUrl,
               [testnet |-> "https://example.org/test", mainnet |-> "https://example.org"]}

\* getNetwork, getHaskoinURL, getNodeURL, getFullDerivationPath(index) of a
\* client whose fields are config
BchGetNetwork(config) == config.network
BchGetHaskoinURL(config) == config.haskoinUrl[BchGetNetwork(config)]
BchGetNodeURL(config) == config.nodeUrl[BchGetNetwork(config)]
BchGetFullDerivationPath(config, x) == <<rootDerivationPaths[config.network], x>>

\* setNetwork(net): "" stands for a falsy argument
BchSetNetwork ==
    \E net \in Networks \cup {""} :
        IF net = ""
        THEN /\ op' = Called("bch.setNetwork", Undefined,
                             Failed("Network must be provided", <<>>))
             /\ bchConfig' = bchConfig
        ELSE /\ bchConfig' = [bchConfig EXCEPT !.network = net]
             /\ op' = Called("bch.setNetwork", Undefined, Ok("this", <<>>))

\* setHaskoinURL(url)
BchSetHaskoinURL ==
    \E url \in ClientUrls :
        /\ bchConfig' = [bchConfig EXCEPT !.haskoinUrl = url]
        /\ op' = Called("bch.setHaskoinURL", Undefined, Ok("", <<>>))

\* setNodeURL(url)
BchSetNodeURL ==
    \E url \in ClientUrls :
        /\ bchConfig' = [bchConfig EXCEPT !.nodeUrl = url]
        /\ op' = Called("bch.setNodeURL", Undefined, Ok("", <<>>))

\* ------------------------------------------------- the concurrent client
\* One unlock, one purgeClient and one transfer may be in flight at a time,
\* each suspended at any of its awaits.
Init ==
    /\ LifeInit
    /\ xfer = [t \in Transfers |-> IdleTransfer]
    /\ op = NoCall
    /\ cr = IdleCreate
    /\ bch = ""
    /\ bchConfig = BchDefaults
    /\ scan = IdleScan

vars == <<wallet, handles, purgeCalls, unl, prg, unlocked, purgedAfter, replaced,
          xfer, op, cr, bch, bchConfig, scan>>

Unlock(U) ==
    /\ \E u \in U : UnlockCall(u) \/ UnlockFactoryDone(u) \/ UnlockPurgeDone(u)
    /\ UNCHANGED <<xfer, op, cr, bch, bchConfig, scan>>

Purge ==
    /\ \E p \in Purgers : PurgeCall(p) \/ PurgeDone(p)
    /\ UNCHANGED <<xfer, op, cr, bch, bchConfig, scan>>

\* transfer, called with params of P
Transfer(P) ==
    /\ \E t \in Transfers :
        \/ \E kind \in Kinds, params \in P : TransferCall(t, kind, params)
        \/ FeeRatesDone(t)
        \/ SenderDone(t)
        \/ BuildDone(t)
        \/ KeysDone(t)
        \/ BroadcastDone(t)
    /\ UNCHANGED lifeVars
    /\ UNCHANGED <<op, cr, bch, bchConfig, scan>>

Next == Unlock({"u1"}) \/ Purge \/ Transfer(PlainTxParams)

Spec == Init /\ [][Next]_vars

\* ------------------------------------- the lifecycle with racing unlocks
\* Two unlock calls and one purgeClient in flight, and getAddress calls.
AddressCall ==
    /\ \E input \in IndexInputs : GetAddress(input)
    /\ UNCHANGED lifeVars
    /\ UNCHANGED <<xfer, cr, bch, bchConfig, scan>>

NextLife == Unlock(Unlockers) \/ Purge \/ AddressCall

SpecLife == Init /\ [][NextLife]_vars

\* ------------------------------------ addresses over the client's life
\* getAddress calls for the indices up to MaxIndex while an unlock and a
\* purgeClient are under way.
AddressCallAt ==
    /\ \E i \in 0..MaxIndex : GetAddress(Idx(i))
    /\ UNCHANGED lifeVars
    /\ UNCHANGED <<xfer, cr, bch, bchConfig, scan>>

NextDerive == Unlock({"u1"}) \/ Purge \/ AddressCallAt

SpecDerive == Init /\ [][NextDerive]_vars

\* getFeeRates of a UTXO client: one sample from the collaborator, then the
\* schedule.
GetFeeRates ==
    \E kind \in UtxoKinds, requestOk \in BOOLEAN, feePerKb \in FeePerKbs :
        LET sample == getSuggestedTxFee(requestOk, feePerKb) IN
        op' = [name |-> kind \o ".getFeeRates", input |-> Undefined, sample |-> sample,
               res |-> Ok(FeeRates(kind, sample), <<"collaborator">>),
               args |-> [NoArgs EXCEPT !.requestOk = requestOk, !.feePerKb = feePerKb],
               built |-> NoBuild, key |-> <<>>]

\* --------------------------------------------------- transaction history
\* An optional number of TxHistoryParams (offset, limit): left out, or v.
NoCount == [given |-> FALSE, v |-> 0]
Count(v) == [given |-> TRUE, v |-> v]

\* `x ?? d` and `x || d` on such a value
Nullish(x, d) == IF x.given THEN x.v ELSE d
OrElse(x, d) == IF x.given /\ x.v # 0 THEN x.v ELSE d

\* The transactions the explorer reports for the address, in its order: n of
\* them, each with its txid.
History(n) == [i \in 1..n |-> [txid |-> <<"txid", i>>]]

\* `txs.filter((_, index) => offset <= index && index < offset + limit)`, the
\* index counting from 0
FilterPage(txs, offset, limit) ==
    LET kept == { i \in 1..Len(txs) : offset <= i - 1 /\ i - 1 < offset + limit }
        first == IF kept = {} THEN 1 ELSE CHOOSE i \in kept : \A j \in kept : i <= j
    IN  [k \in 1..Cardinality(kept) |-> txs[first + k - 1]]

\* the Tx made of the rawTx that sochain.getTx answers for a hash
TxOf(item) == [hash |-> item.txid, type |-> "transfer"]

\* bitcoin: `params?.limit || 10`; litecoin: `params.limit ?? 10`
UtxoLimit(kind, limit) == IF kind = "btc" THEN OrElse(limit, 10) ELSE Nullish(limit, 10)

\* getTransactions of bitcoin and litecoin: the address's transactions from
\* the explorer, then one getTx per entry of the page, awaited in turn; the
\* failAt-th of them fails (none when failAt = 0).  res: the outcome; fetched:
\* how each getTx made ended.
\* (A variant that leaves a transaction out when its getTx fails.)
UtxoGetTransactionsSkipping(kind, txs, offset, limit, failAt) ==
    LET page == FilterPage(txs, Nullish(offset, 0), UtxoLimit(kind, limit))
        good == SelectSeq([k \in 1..Len(page) |-> [at |-> k, item |-> page[k]]],
                          LAMBDA e : e.at # failAt)
    IN  [res |-> Ok([total |-> Len(txs), txs |-> [k \in 1..Len(good) |-> TxOf(good[k].item)]],
                    [k \in 1..(Len(page) + 1) |-> "collaborator"]),
         fetched |-> [k \in 1..Len(page) |-> k # failAt]]

UtxoGetTransactions(kind, txs, offset, limit, failAt) ==
    LET page == FilterPage(txs, Nullish(offset, 0), UtxoLimit(kind, limit))
    IN  IF failAt \in 1..Len(page)
        THEN [res |-> Failed("request failed", [k \in 1..(failAt + 1) |-> "collaborator"]),
              fetched |-> [k \in 1..failAt |-> k # failAt]]
        ELSE [res |-> Ok([total |-> Len(txs), txs |-> [k \in 1..Len(page) |-> TxOf(page[k])]],
                         [k \in 1..(Len(page) + 1) |-> "collaborator"]),
              fetched |-> [k \in 1..Len(page) |-> TRUE]]

\* getTransactions of the Ethereum client: one request for the whole history
\* (it fails when failAt is not 0), then the page
EthGetTransactions(kind, txs, offset, limit, failAt) ==
    [res |-> IF failAt # 0 THEN Failed("request failed", <<"collaborator">>)
             ELSE Ok([total |-> Len(txs),
                      txs |-> FilterPage([k \in 1..Len(txs) |-> TxOf(txs[k])],
                                         OrElse(offset, 0), OrElse(limit, 10))],
                     <<"collaborator">>),
     fetched |-> <<>>]

HistoryKinds == {"btc", "ltc", "eth"}
Offsets == {NoCount, Count(0), Count(2)}
Limits == {NoCount, Count(0), Count(1), Count(11)}
FailAts == {0, 1, 2}

GetTransactions ==
    \E kind \in HistoryKinds, n \in 0..MaxTxs, offset \in Offsets, limit \in Limits,
       failAt \in FailAts :
        LET run == IF kind = "eth"
                   THEN EthGetTransactions(kind, History(n), offset, limit, failAt)
                   ELSE UtxoGetTransactions(kind, History(n), offset, limit, failAt)
        IN  op' = [Called(kind \o ".getTransactions", Undefined, run.res)
                    EXCEPT !.args = [txs |-> History(n), offset |-> offset, limit |-> limit,
                                     fetched |-> run.fetched]]

\* ----------------------------------------------------------- enumerations
\* The call ends: it returns v, or rejects with e.
ScanReturn(base, v) == [base EXCEPT !.pc = "idle", !.out = {}, !.res = Ok(v, <<>>)]
ScanReject(base, e) == [base EXCEPT !.pc = "idle", !.out = {}, !.res = Failed(e, <<>>)]

\* A request for the i-th item is made; it settles.
Request(base, i) ==
    [base EXCEPT !.out = @ \cup {i}, !.log = Append(@, <<"request", i>>)]
Settled(base, i) ==
    [base EXCEPT !.out = @ \ {i}, !.log = Append(@, <<"settled", i>>)]

\* The turn of a loop over the items: the first item not dealt with yet.
Turn(base) == Cardinality({ i \in 1..Len(base.got) : base.got[i] # "pending" }) + 1

\* The enumeration begins: nothing is dealt with.
Enumerate(base, items) ==
    [base EXCEPT !.items = items, !.got = [i \in 1..Len(items) |-> "pending"]]

\* ---- sochain-api: getUnspentTxs, getConfirmedUnspentTxs
\* `if (txs.length !== 100) return txs`
PageSize == 100

\* The lengths of the pages the explorer may answer with, and its j-th page
\* of len unspent outputs.
PageLens == {0, 1, PageSize - 1, PageSize, PageSize + 1}
Page(j, len) == [k \in 1..len |-> [txid |-> <<"utxo", j, k>>]]

\* `txs.concat(nextBatch)`, nextBatch being what the nested call returns
RECURSIVE ConcatPages(_)
ConcatPages(pages) ==
    IF pages = <<>> THEN <<>> ELSE pages[1] \o ConcatPages(Tail(pages))

\* lines 94-99: the request, from the txid given (<<>>: none given)
RequestUnspentTxs(base, startingFromTxId) ==
    [base EXCEPT !.pc = "page", !.reqs = Append(@, startingFromTxId)]

\* `.filter(([_, isTxConfirmed]) => isTxConfirmed).map(([tx, _]) => tx)` on the
\* pairs that Promise.all gives, which are in the order of txs
\* (A variant without the filter.)
ConfirmedUnfiltered(txs, got) ==
    LET pairs == [i \in 1..Len(txs) |-> <<txs[i], got[i] = "yes">>]
    IN  [k \in 1..Len(pairs) |-> pairs[k][1]]

Confirmed(txs, got) ==
    LET pairs == [i \in 1..Len(txs) |-> <<txs[i], got[i] = "yes">>]
        kept == SelectSeq(pairs, LAMBDA pair : pair[2])
    IN  [k \in 1..Len(kept) |-> kept[k][1]]

\* getUnspentTxs has returned txs.  In getConfirmedUnspentTxs `txs.map(async
\* ...)` runs the callback of every entry up to its await, the request of
\* getIsTxConfirmed, and Promise.all awaits them all.
UnspentTxsReturned(base, txs) ==
    IF base.kind = "getUnspentTxs" THEN ScanReturn(base, txs)
    ELSE IF txs = <<>> THEN ScanReturn(Enumerate(base, txs), <<>>)
    ELSE [Enumerate(base, txs) EXCEPT
            !.pc = "confirm", !.out = 1..Len(txs),
            !.log = [i \in 1..Len(txs) |-> <<"request", i>>]]

\* lines 101-113, the response being txs: it is the result, or the first page
\* of it, the rest asked for from the txid of its last entry.
\* (A variant that also asks for more after a page of more than 100 entries.)
getUnspentTxsAtLeast(base, txs) ==
    IF Len(txs) < PageSize THEN UnspentTxsReturned(base, ConcatPages(base.pages))
    ELSE RequestUnspentTxs(base, txs[PageSize].txid)

getUnspentTxs(base, txs) ==
    IF Len(txs) # PageSize THEN UnspentTxsReturned(base, ConcatPages(base.pages))
    ELSE RequestUnspentTxs(base, txs[PageSize].txid)

\* The pages an address may have: the explorer holds at most MaxPages of
\* them, and for getConfirmedUnspentTxs at most MaxUtxos outputs.
LensOf(kind) == IF kind = "getUnspentTxs" THEN PageLens ELSE 0..MaxUtxos

UnspentTxsCall ==
    /\ scan.pc = "idle"
    /\ \E kind \in {"getUnspentTxs", "getConfirmedUnspentTxs"} :
        scan' = RequestUnspentTxs([IdleScan EXCEPT !.kind = kind], <<>>)

\* the request of a page settles
UnspentTxsDone ==
    /\ scan.pc = "page"
    /\ \E ok \in BOOLEAN, len \in LensOf(scan.kind) :
        /\ Len(scan.pages) + 1 = MaxPages => len # PageSize
        /\ LET txs == Page(Len(scan.pages) + 1, len) IN
           scan' = IF ~ok THEN ScanReject(scan, "request failed")
                   ELSE getUnspentTxs([scan EXCEPT !.pages = Append(@, txs)], txs)

\* a getIsTxConfirmed request settles; Promise.all rejects with the first
\* rejection and resolves when every callback has
IsTxConfirmedDone ==
    /\ scan.pc = "confirm"
    /\ \E i \in scan.out, answer \in {"yes", "no", "failed"} :
        LET after == [Settled(scan, i) EXCEPT !.got[i] = answer] IN
        scan' = IF answer = "failed" THEN ScanReject(after, "request failed")
                ELSE IF after.out # {} THEN after
                ELSE ScanReturn(after, Confirmed(after.items, after.got))

\* ---- getTransactions of bitcoin and litecoin, await by await
ChainOf(kind) == IF kind = "btc.getTransactions" THEN "btc" ELSE "ltc"
ScanTxs == {0, 2, 3}

\* `for (const txItem of txs) { const rawTx = await sochain.getTx(...) ... }`
\* from the turn reached, and lines 654-658
TxLoop(base) ==
    IF Turn(base) > Len(base.items)
    THEN ScanReturn(base, [total |-> Len(base.pages[1]),
                           txs |-> [k \in 1..Len(base.items) |-> TxOf(base.items[k])]])
    ELSE [Request(base, Turn(base)) EXCEPT !.pc = "tx"]

TransactionsCall ==
    /\ scan.pc = "idle"
    /\ \E kind \in {"btc.getTransactions", "ltc.getTransactions"},
          offset \in {NoCount, Count(1)}, limit \in {NoCount, Count(0), Count(2)} :
        scan' = [IdleScan EXCEPT !.pc = "address", !.kind = kind,
                                 !.params = [offset |-> offset, limit |-> limit]]

\* sochain.getAddress settles
AddressDone ==
    /\ scan.pc = "address"
    /\ \E ok \in BOOLEAN, n \in ScanTxs :
        LET txs == FilterPage(History(n), Nullish(scan.params.offset, 0),
                              UtxoLimit(ChainOf(scan.kind), scan.params.limit))
        IN  scan' = IF ~ok THEN ScanReject(scan, "request failed")
                    ELSE TxLoop(Enumerate([scan EXCEPT !.pages = <<History(n)>>], txs))

\* sochain.getTx settles
TxDone ==
    /\ scan.pc = "tx"
    /\ \E i \in scan.out, ok \in BOOLEAN :
        scan' = IF ~ok THEN ScanReject([Settled(scan, i) EXCEPT !.got[i] = "failed"],
                                       "request failed")
                ELSE TxLoop([Settled(scan, i) EXCEPT !.got[i] = "yes"])

\* ---- getBalance of the Ethereum client on testnet, await by await
\* The optional argument assets, and `assets || [AssetETH]`: the assets
\* given (an array, even an empty one, is truthy), or ETH alone.
NoAssets == [given |-> FALSE, list |-> <<>>]
Assets(list) == [given |-> TRUE, list |-> list]
AssetLists == UNION { [1..n -> {"ETH", "token"}] : n \in 0..MaxAssets }
NewAssets(assets) == IF assets.given THEN assets.list ELSE <<"ETH">>

\* the loop of lines 197-233 from the turn reached, up to
\* `await this.getEtherscanProvider()`; line 235
BalanceLoop(base) ==
    IF Turn(base) > Len(base.items) THEN ScanReturn(base, base.items)
    ELSE [base EXCEPT !.pc = "provider"]

\* `await delay(300)`, the item being dealt with
Delay(base) == [base EXCEPT !.pc = "delay", !.got[Turn(base)] = "yes"]

EthBalanceCall ==
    /\ scan.pc = "idle"
    /\ \E assets \in { Assets(list) : list \in AssetLists } \cup {NoAssets} :
        scan' = [IdleScan EXCEPT !.pc = "balance", !.kind = "eth.getBalance",
                                 !.params = [assets |-> assets]]

\* `await this.getProvider().getBalance(address)` settles
EthBalanceDone ==
    /\ scan.pc = "balance"
    /\ \E ok \in BOOLEAN :
        scan' = IF ~ok THEN ScanReject(scan, "request failed")
                ELSE BalanceLoop(Enumerate(scan, NewAssets(scan.params.assets)))

\* getEtherscanProvider settles: the balance of a token is asked for; ETH's
\* is at hand
ProviderDone ==
    /\ scan.pc = "provider"
    /\ scan' = IF scan.items[Turn(scan)] = "token"
               THEN [Request(scan, Turn(scan)) EXCEPT !.pc = "tokenBalance"]
               ELSE Delay(scan)

\* etherscanAPI.getTokenBalance settles; callOffline asks for the decimals
TokenBalanceDone ==
    /\ scan.pc = "tokenBalance"
    /\ \E i \in scan.out, ok \in BOOLEAN :
        scan' = IF ~ok THEN ScanReject([Settled(scan, i) EXCEPT !.got[i] = "failed"],
                                       "request failed")
                ELSE [Request(Settled(scan, i), i) EXCEPT !.pc = "decimals"]

\* callOffline settles
DecimalsDone ==
    /\ scan.pc = "decimals"
    /\ \E i \in scan.out, ok \in BOOLEAN :
        scan' = IF ~ok THEN ScanReject([Settled(scan, i) EXCEPT !.got[i] = "failed"],
                                       "request failed")
                ELSE Delay(Settled(scan, i))

\* the delay is over
DelayDone ==
    /\ scan.pc = "delay"
    /\ scan' = BalanceLoop([scan EXCEPT !.log = Append(@, <<"delay", Turn(scan) - 1>>)])

\* ------------------------------------------- transaction building
\* Utils.buildTx, which the transfers call, is not among the sources: it is
\* modelled after the contract of the assembly pipeline.  Values are in the
\* chain's smallest unit, the fee rate in units per byte.
RECURSIVE SumOf(_)
SumOf(values) == IF values = <<>> THEN 0 ELSE values[1] + SumOf(Tail(values))

\* The outputs of a plan: the recipient's, a null-data memo output of no
\* value if a memo is given, and the change output if there is change.
OutputsOf(amount, memo, change) ==
    <<[kind |-> "recipient", value |-> amount]>>
        \o (IF Truthy(memo) THEN <<[kind |-> "memo", value |-> 0]>> ELSE <<>>)
        \o (IF change > 0 THEN <<[kind |-> "change", value |-> change]>> ELSE <<>>)

\* The serialized size in bytes of a transaction with these inputs and
\* outputs.
OutputSize(out) == IF out.kind = "memo" THEN 50 ELSE 34
SerializedSize(inputs, outputs) ==
    10 + 148 * Len(inputs) + SumOf([k \in 1..Len(outputs) |-> OutputSize(outputs[k])])

\* feeFor(rate, size)
FeeFor(rate, size) == rate * size

\* An output below the dust threshold is not created.
IsDust(value) == value < 546

\* Selection: the entries in the explorer's order, as many as it takes for
\* their sum to cover the amount and the fee at the size reached.
Covers(utxos, k, amount, rate, memo) ==
    SumOf(SubSeq(utxos, 1, k))
        >= amount + FeeFor(rate, SerializedSize(SubSeq(utxos, 1, k),
                                               OutputsOf(amount, memo, 0)))

\* buildTx: the plan, or InsufficientFunds.  With the inputs selected, the
\* change is what the inputs leave after the amount and the fee of the plan
\* that has a change output; change below the dust threshold is left out and
\* the amount it stood for goes to the fee.
\* (A variant that leaves dust change out without adding it to the fee.)
BuildTxDroppingDust(utxos, amount, rate, memo) ==
    LET enough == { k \in 1..Len(utxos) : Covers(utxos, k, amount, rate, memo) } IN
    IF enough = {} THEN Failed("InsufficientFunds", <<>>)
    ELSE
        LET k == CHOOSE i \in enough : \A j \in enough : i <= j
            inputs == SubSeq(utxos, 1, k)
            left == SumOf(inputs) - amount
                        - FeeFor(rate, SerializedSize(inputs, OutputsOf(amount, memo, 1)))
        IN  IF left > 0 /\ ~IsDust(left)
            THEN Ok([inputs |-> inputs, outputs |-> OutputsOf(amount, memo, left),
                     fee |-> SumOf(inputs) - amount - left], <<>>)
            ELSE Ok([inputs |-> inputs, outputs |-> OutputsOf(amount, memo, 0),
                     fee |-> FeeFor(rate, SerializedSize(inputs, OutputsOf(amount, memo, 0)))],
                    <<>>)

BuildTx(utxos, amount, rate, memo) ==
    LET enough == { k \in 1..Len(utxos) : Covers(utxos, k, amount, rate, memo) } IN
    IF enough = {} THEN Failed("InsufficientFunds", <<>>)
    ELSE
        LET k == CHOOSE i \in enough : \A j \in enough : i <= j
            inputs == SubSeq(utxos, 1, k)
            left == SumOf(inputs) - amount
                        - FeeFor(rate, SerializedSize(inputs, OutputsOf(amount, memo, 1)))
        IN  IF left > 0 /\ ~IsDust(left)
            THEN Ok([inputs |-> inputs, outputs |-> OutputsOf(amount, memo, left),
                     fee |-> SumOf(inputs) - amount - left], <<>>)
            ELSE Ok([inputs |-> inputs, outputs |-> OutputsOf(amount, memo, 0),
                     fee |-> SumOf(inputs) - amount], <<>>)

\* The unspent outputs of the sender (their values, in the explorer's order),
\* the amounts and the fee rates of the calls.
UtxoValues == {500, 1000, 50000}
UtxoLists == UNION { [1..n -> UtxoValues] : n \in 0..MaxUtxos }
Amounts == {300, 1500, 40000}
PlanRates == {0, 1, 10}

BuildTxCall ==
    \E utxos \in UtxoLists, amount \in Amounts, rate \in PlanRates,
       memo \in {NoMemo, Memo("SWAP:BNB.BNB")} :
        op' = [Called("buildTx", Undefined, BuildTx(utxos, amount, rate, memo))
                EXCEPT !.args = [utxos |-> utxos, amount |-> amount, feeRate |-> rate,
                                 memo |-> memo]]

\* ------------------------------------------------------ fees and rates
\* Utils.calcFee(feeRate, memo), which the clients call, is not among the
\* sources: it is modelled after the contract of the fee-rate engine, as the
\* fee at that rate of a transaction with one input, the recipient's and a
\* change output, and the memo's output if a memo is given, in whole units.
Ceil(x) == ((x + Unit - 1) \div Unit) * Unit
calcFee(rate, memo) == Ceil(FeeFor(rate, SerializedSize(<<1>>, OutputsOf(1, memo, 1))))

\* FeeType.PerByte
PerByte == "byte"

\* bitcoin getFeesWithRates(memo), txFee being the sample
BtcGetFeesWithRates(memo, txFee) ==
    LET rates == BtcFeeRates(txFee) IN
    [fees |-> [type |-> PerByte,
               fast |-> calcFee(rates.fast, memo),
               average |-> calcFee(rates.average, memo),
               fastest |-> calcFee(rates.fastest, memo)],
     rates |-> rates]

\* litecoin getFeesWithRates(memo): the rates of getFeeRates, and for each of
\* their entries [k, v] the entry [k, calcFee(v, memo)] put into {type}
LtcGetFeesWithRates(memo, nextBlockFeeRate) ==
    LET rates == LtcFeeRates(nextBlockFeeRate) IN
    [fees |-> [k \in DOMAIN rates \cup {"type"} |->
                    IF k = "type" THEN PerByte ELSE calcFee(rates[k], memo)],
     rates |-> rates]

\* bitcoincash getFeesWithRates(memo)
BchGetFeesWithRates(memo, nextBlockFeeRate) ==
    LET rates == BchFeeRates(nextBlockFeeRate) IN
    [fees |-> [type |-> PerByte,
               fast |-> calcFee(rates.fast, memo),
               average |-> calcFee(rates.average, memo),
               fastest |-> calcFee(rates.fastest, memo)],
     rates |-> rates]

\* (A variant that leaves the memo out of the fees.)
GetFeesWithRatesOfNoMemo(kind, memo, sample) ==
    CASE kind = "btc" -> BtcGetFeesWithRates(NoMemo, sample)
      [] kind = "ltc" -> LtcGetFeesWithRates(NoMemo, sample)
      [] kind = "bch" -> BchGetFeesWithRates(NoMemo, sample)

GetFeesWithRates(kind, memo, sample) ==
    CASE kind = "btc" -> BtcGetFeesWithRates(memo, sample)
      [] kind = "ltc" -> LtcGetFeesWithRates(memo, sample)
      [] kind = "bch" -> BchGetFeesWithRates(memo, sample)

\* getFees(): `const { fees } = await this.getFeesWithRates()`
GetFees(kind, sample) == GetFeesWithRates(kind, NoMemo, sample).fees

\* getFeesWithMemo(memo): `const { fees } = await this.getFeesWithRates(memo)`
GetFeesWithMemo(kind, memo, sample) == GetFeesWithRates(kind, memo, sample).fees

\* The fee estimates (per kilobyte) the collaborator may answer these with.
FeesFeePerKbs == {0, 1, 1500, 20000}

\* One call of getFeesWithRates, getFees or getFeesWithMemo: one sample from
\* the collaborator, then the fees (and rates).
FeesCall ==
    \E kind \in UtxoKinds, name \in {"getFeesWithRates", "getFees", "getFeesWithMemo"},
       memo \in Memos, requestOk \in BOOLEAN, feePerKb \in FeesFeePerKbs :
        /\ name = "getFees" => memo = NoMemo
        /\ name = "getFeesWithMemo" => memo.given
        /\ LET sample == getSuggestedTxFee(requestOk, feePerKb)
               val == CASE name = "getFeesWithRates" -> GetFeesWithRates(kind, memo, sample)
                        [] name = "getFees" -> GetFees(kind, sample)
                        [] name = "getFeesWithMemo" -> GetFeesWithMemo(kind, memo, sample)
           IN  op' = [name |-> kind \o "." \o name, input |-> Undefined, sample |-> sample,
                      res |-> Ok(val, <<"collaborator">>),
                      args |-> [NoArgs EXCEPT !.requestOk = requestOk,
                                              !.feePerKb = feePerKb, !.memo = memo],
                      built |-> NoBuild, key |-> <<>>]

\* ------------------------------------------------------- client creation
\* One call of a factory made by bindFactory, with the unlock it awaits.
CreateUnlock == cr.pc = "unlock" /\ Unlock({"u1"})

NextCreate == CreateCall \/ CreateInitDone \/ CreateUnlock \/ CreateUnlockDone

SpecCreate == Init /\ [][NextCreate]_vars

\* ------------------------------------------------- operations in sequence
\* The operations of the clients called one after another: a call is made
\* only while no unlock or purgeClient is pending.
Quiet ==
    /\ \A u \in Unlockers : unl[u].pc = "idle"
    /\ \A p \in Purgers : prg[p].pc = "idle"

\* The record of the last one-step call is dropped when a lifecycle call is
\* made.
Lifecycle ==
    \/ /\ Quiet
       /\ \/ /\ UnlockCall("u1")
             /\ validatePhrase(unl'["u1"].phrase) => Len(handles) < MaxOpsWallets
          \/ PurgeCall("p1")
       /\ op' = NoCall
       /\ UNCHANGED <<xfer, cr, bch, bchConfig, scan>>
    \/ /\ UnlockFactoryDone("u1") \/ UnlockPurgeDone("u1") \/ PurgeDone("p1")
       /\ UNCHANGED <<xfer, op, cr, bch, bchConfig, scan>>

ClientOp ==
    /\ Quiet
    /\ (\E input \in IndexInputs : GetAddress(input)) \/ EthOp
    /\ UNCHANGED lifeVars
    /\ UNCHANGED <<xfer, cr, bch, bchConfig, scan>>

BitcoinCashOp ==
    /\ BchSetPhrase \/ BchPurgeClient \/ BchOp(PlainTxParams)
    /\ UNCHANGED lifeVars
    /\ UNCHANGED <<xfer, cr, bchConfig, scan>>

NextOps == Lifecycle \/ ClientOp \/ BitcoinCashOp

SpecOps == Init /\ [][NextOps]_vars

\* ------------------------------------------------------ fee rate schedules
NextFees ==
    /\ GetFeeRates \/ FeesCall
    /\ UNCHANGED lifeVars
    /\ UNCHANGED <<xfer, cr, bch, bchConfig, scan>>

SpecFees == Init /\ [][NextFees]_vars

\* --------------------------------------------------- transaction history
NextHistory == GetTransactions /\ UNCHANGED lifeVars /\ UNCHANGED <<xfer, cr, bch, bchConfig, scan>>

SpecHistory == Init /\ [][NextHistory]_vars

\* ------------------------------------------------ transaction building
NextPlan == BuildTxCall /\ UNCHANGED lifeVars /\ UNCHANGED <<xfer, cr, bch, bchConfig, scan>>

SpecPlan == Init /\ [][NextPlan]_vars

\* ---------------------------------------------------------- enumerations
\* One call of an enumerating operation at a time, await by await.
ScanSettle ==
    /\ \/ UnspentTxsDone
       \/ IsTxConfirmedDone
       \/ AddressDone
       \/ TxDone
       \/ EthBalanceDone
       \/ ProviderDone
       \/ TokenBalanceDone
       \/ DecimalsDone
       \/ DelayDone
    /\ UNCHANGED lifeVars
    /\ UNCHANGED <<xfer, op, cr, bch, bchConfig>>

ScanCall ==
    /\ UnspentTxsCall \/ TransactionsCall \/ EthBalanceCall
    /\ UNCHANGED lifeVars
    /\ UNCHANGED <<xfer, op, cr, bch, bchConfig>>

NextScan == ScanCall \/ ScanSettle

SpecScan == Init /\ [][NextScan]_vars

\* Every request made is answered or fails in the end, and every delay ends.
SpecScanFair == SpecScan /\ WF_vars(ScanSettle)

\* ------------------------------------------- transfers with every params
\* Transfers of litecoin and bitcoin with every params, while the client is
\* unlocked and purged.
NextTransfer == Lifecycle \/ Transfer(TxParams)

SpecTransfer == Init /\ [][NextTransfer]_vars

\* ------------------------------------------ the Bitcoin Cash client alone
\* Its operations called one after another, transfer with every params.
NextBch ==
    /\ \/ (BchSetPhrase \/ BchPurgeClient \/ BchOp(TxParams)) /\ bchConfig' = bchConfig
       \/ (BchSetNetwork \/ BchSetHaskoinURL \/ BchSetNodeURL) /\ bch' = bch
    /\ UNCHANGED lifeVars
    /\ UNCHANGED <<xfer, cr, scan>>

SpecBch == Init /\ [][NextBch]_vars

LockedError == "client must be unlocked"
IndexError == "index must be a non-negative integer"
InvalidInputs == { input \in IndexInputs : ~IsValidIndex(DefaultIndex(input)) }
ValidInputs == IndexInputs \ InvalidInputs

\* ------------------------------------------- claims on the concurrent client
\* C1: under any interleaving of transfer with unlock and purgeClient, no
\* transfer signs with a key obtained from a wallet handle that, at the moment
\* of signing, has been taken off the client (by purgeClient, alone or as the
\* step of an unlock that replaces it).
C1_NeverSignsWithDetachedKey ==
    \A t \in Transfers : xfer[t].signed # "stale"

\* C3: after a successful unlock followed by a completed purgeClient, with no
\* later unlock, the client holds no wallet, getAddress fails with 'client
\* must be unlocked' for every index, and so does transfer for every
\* parameter set, having invoked nothing.
C3_LockedAfterUnlockThenPurge ==
    purgedAfter =>
        /\ wallet = Null
        /\ \A input \in IndexInputs :
                ClientGetAddress(wallet, input) = Failed(LockedError, <<>>)
        /\ \A t \in Transfers :
            /\ xfer[t].purged =>
                xfer[t].pc = "idle" /\ xfer[t].last = LockedError /\ xfer[t].touched = {}
            /\ xfer[t].pc = "idle" =>
                \A kind \in Kinds, params \in TxParams :
                    LET after == TransferEntry(t, kind, params)[t] IN
                    after.pc = "idle" /\ after.last = LockedError /\ after.touched = {}

\* a transfer called after unlock and purgeClient had settled was turned down
C3_TransferRejectedAfterPurge ==
    /\ purgedAfter
    /\ \E t \in Transfers : xfer[t].purged /\ xfer[t].last = LockedError

\* C7: on an unlocked client, getAddress and transfer fail with 'index must be
\* a non-negative integer' for every index that is negative or not a safe
\* integer, before the wallet handle or any collaborator is invoked.
C7_InvalidIndexRejectedFirst ==
    /\ wallet # Null =>
        \A input \in InvalidInputs :
            /\ ClientGetAddress(wallet, input) = Failed(IndexError, <<>>)
            /\ \A t \in Transfers : xfer[t].pc = "idle" =>
                \A kind \in Kinds, params \in TxParams :
                    params.walletIndex = input =>
                    LET after == TransferEntry(t, kind, params)[t] IN
                    after.pc = "idle" /\ after.last = IndexError /\ after.touched = {}
    /\ \A t \in Transfers :
        /\ xfer[t].last = IndexError => xfer[t].touched = {}
        /\ xfer[t].pc # "idle" => xfer[t].input \in ValidInputs

\* a transfer on an unlocked client was turned down for its index
C7_TransferRejectedForIndex ==
    /\ wallet # Null
    /\ \E t \in Transfers : xfer[t].pc = "idle" /\ xfer[t].last = IndexError

\* C26: the locked check comes before the index check and their errors
\* differ: on a client without a wallet getAddress and transfer fail with
\* 'client must be unlocked' for every index, valid or not, having invoked
\* nothing; 'index must be a non-negative integer' is only seen with a wallet
\* attached.
C26_LockedBeforeIndex ==
    /\ LockedError # IndexError
    /\ wallet = Null =>
        \A input \in IndexInputs :
            /\ ClientGetAddress(wallet, input) = Failed(LockedError, <<>>)
            /\ \A c \in EthChoices("transfer") :
                    EthTransfer(wallet, input, c.flag, c.erc20, c.libOk, c.netOk)
                        = Failed(LockedError, <<>>)
            /\ \A t \in Transfers : xfer[t].pc = "idle" =>
                \A kind \in Kinds, params \in TxParams :
                    params.walletIndex = input =>
                    LET after == TransferEntry(t, kind, params)[t] IN
                    after.pc = "idle" /\ after.last = LockedError /\ after.touched = {}
    /\ op.name \in {"getAddress", "eth.transfer"} =>
        /\ wallet = Null => op.res = Failed(LockedError, <<>>)
        /\ op.res.err = IndexError => wallet # Null /\ op.res.trace = <<>>

\* transfer of the Ethereum client with an invalid index on a client without
\* a wallet was turned down as locked
C26_LockedWithInvalidIndex ==
    /\ wallet = Null
    /\ op.name = "eth.transfer" /\ op.input = Idx(-1)
    /\ op.res = Failed(LockedError, <<>>)

\* ------------------------------------------- claims on the operations
IndexOps == { "eth." \o name : name \in EthOps }
                \cup {"getAddress", "bch.getAddress", "bch.setPhrase", "bch.transfer"}

\* C8: every operation that takes a wallet index, given one that is negative
\* or not a safe integer, fails having made no collaborator request and no
\* key derivation or signing.
C8_InvalidIndexRejectedBeforeWork ==
    (op.name \in IndexOps /\ op.input \in InvalidInputs) =>
        ~op.res.ok /\ op.res.trace = <<>>

\* C10: for every sample s the fee rates of each UTXO client are
\* average = 0.5 s, fast = s, fastest = 5 s, with average <= fast <= fastest;
\* s = 20 gives 10, 20, 100.
C10_FeeRateSchedule ==
    \A kind \in UtxoKinds :
        op.name = kind \o ".getFeeRates" =>
            LET rates == op.res.val
                s == op.sample
            IN  /\ op.res.ok /\ s >= 0
                /\ 2 * rates.average = s
                /\ rates.fast = s
                /\ rates.fastest = 5 * s
                /\ rates.average <= rates.fast /\ rates.fast <= rates.fastest
                /\ s = Num(20) =>
                    rates = [average |-> Num(10), fast |-> Num(20), fastest |-> Num(100)]

\* C11: getSuggestedTxFee never fails: it gives 127 when the fee-estimate
\* request fails and feePerKb / 1000 otherwise, so that the Bitcoin
\* getFeeRates succeeds either way, its fast tier being that sample.
C11_FeeSampleFallsBack ==
    op.name = "btc.getFeeRates" =>
        /\ op.res.ok
        /\ op.args.requestOk => 1000 * op.sample = Num(op.args.feePerKb)
        /\ ~op.args.requestOk => op.sample = Num(127)
        /\ op.res.val.fast = op.sample

\* getFeeRates returned although the fee-estimate request had failed
C11_RatesAfterFailedRequest ==
    /\ op.name = "btc.getFeeRates" /\ ~op.args.requestOk
    /\ op.res.ok /\ op.res.val.fast = Num(127)

FeeTiers == {"average", "fast", "fastest"}

\* C30: one getFeesWithRates(memo) call takes one sample of the suggested fee
\* from the collaborator, and its fees and rates agree: for each tier the fee
\* is the one computed from the tier's rate and the memo given; getFees()
\* gives the fees of getFeesWithRates() without a memo and getFeesWithMemo(m)
\* those of getFeesWithRates(m).
C30_FeesAgreeWithRates ==
    \A kind \in UtxoKinds :
        LET rates == [average |-> TimesHalf(op.sample), fast |-> Times1(op.sample),
                      fastest |-> Times5(op.sample)]
            memo == IF op.name = kind \o ".getFees" THEN NoMemo ELSE op.args.memo
            IsFees(fees) ==
                /\ DOMAIN fees = FeeTiers \cup {"type"}
                /\ \A tier \in FeeTiers : fees[tier] = calcFee(rates[tier], memo)
        IN  /\ op.name = kind \o ".getFeesWithRates" =>
                /\ op.res.ok /\ op.res.trace = <<"collaborator">>
                /\ op.res.val.rates = rates
                /\ IsFees(op.res.val.fees)
            /\ op.name \in {kind \o ".getFees", kind \o ".getFeesWithMemo"} =>
                /\ op.res.ok /\ op.res.trace = <<"collaborator">>
                /\ IsFees(op.res.val)
                /\ op.res.val = GetFeesWithRates(kind, memo, op.sample).fees

\* litecoin's getFeesWithRates with a memo gave three different fees, each
\* above the fee that getFees gives for its tier
C30_FeesWithMemoAbove ==
    /\ op.name = "ltc.getFeesWithRates" /\ Truthy(op.args.memo)
    /\ op.res.val.fees.average < op.res.val.fees.fast
    /\ op.res.val.fees.fast < op.res.val.fees.fastest
    /\ \A tier \in FeeTiers : op.res.val.fees[tier] > GetFees("ltc", op.sample)[tier]

\* the Bitcoin Cash client returned the schedule of the sample 20
C10_ScheduleOfTwenty ==
    /\ op.name = "bch.getFeeRates" /\ op.sample = Num(20)
    /\ op.res.val.fastest = Num(100)

\* ------------------------------------------------- claims on transfers
\* C12: in every UTXO client's transfer a supplied params.feeRate (any number,
\* 0 included) is the fee rate handed to buildTx; only when none is supplied
\* is it the fast tier of the current fee-rate schedule.
C12_SuppliedFeeRateIsUsed ==
    /\ \A t \in Transfers :
        xfer[t].pc \in {"sender", "build"} =>
            IF xfer[t].feeRate.given THEN xfer[t].rate = xfer[t].feeRate
            ELSE /\ xfer[t].rate.given
                 /\ \E requestOk \in BOOLEAN, feePerKb \in TransferFeePerKbs :
                        xfer[t].rate.v =
                            Times1(getSuggestedTxFee(requestOk, feePerKb))
    /\ (op.name = "bch.transfer" /\ op.built.called) =>
            op.built.feeRate = IF op.args.feeRate.given THEN op.args.feeRate.v
                               ELSE Times1(op.sample)

\* C13: in every UTXO client, whenever transfer is called with a memo, the
\* UTXO set requested for building leaves out pending entries: buildTx is told
\* not to spend pending outputs.
C13_MemoExcludesPending ==
    /\ \A t \in Transfers :
        (xfer[t].pc = "build" /\ Truthy(xfer[t].memo)) => xfer[t].pending = "false"
    /\ (op.name = "bch.transfer" /\ op.built.called /\ Truthy(op.args.memo)) =>
            op.built.pending = "false"

\* The places of a step in a transfer's steps.
At(t, step) == { i \in 1..Len(xfer[t].steps) : xfer[t].steps[i] = step }
Precedes(t, a, b) == \A i \in At(t, a), j \in At(t, b) : i < j
StepNames == {"keys", "fee", "sender", "build", "sign", "broadcast"}

C21_OneHandleThroughout ==
    \A t \in Transfers :
        /\ xfer[t].pc # "idle" =>
            /\ xfer[t].began # Null
            /\ xfer[t].senderFrom \in {Null, xfer[t].began}
            /\ xfer[t].keyFrom \in {Null, xfer[t].began}
        /\ xfer[t].last # NullReadError
        /\ xfer[t].last = LockedError => xfer[t].steps = <<>>

\* ------------------------------------------- claims on the enumerations
\* C25: every enumeration that makes one request per item (the balance of
\* each asset in the Ethereum testnet getBalance, the fetch of each
\* transaction in getTransactions, the confirmation lookup of each unspent
\* output in getConfirmedUnspentTxs) is serialized: at most one such request
\* is outstanding at any time, a request being made only after the one before
\* it has settled, and in the Ethereum loop a delay passes between the
\* requests of two different items.
C25_RequestsOneAtATime ==
    /\ Cardinality(scan.out) <= 1
    /\ \A j \in 2..Len(scan.log) :
            scan.log[j][1] = "request" => scan.log[j - 1][1] # "request"
    /\ scan.kind = "eth.getBalance" =>
            \A a, b \in 1..Len(scan.log) :
                (/\ a < b
                 /\ scan.log[a][1] = "request" /\ scan.log[b][1] = "request"
                 /\ scan.log[a][2] # scan.log[b][2]) =>
                    \E c \in (a + 1)..(b - 1) : scan.log[c][1] = "delay"

\* The places of the entries of txs that were answered "yes", in order.
RECURSIVE PlacesConfirmed(_, _)
PlacesConfirmed(got, i) ==
    IF i > Len(got) THEN <<>>
    ELSE (IF got[i] = "yes" THEN <<i>> ELSE <<>>) \o PlacesConfirmed(got, i + 1)

\* C28: getConfirmedUnspentTxs returns exactly the entries of getUnspentTxs'
\* result whose confirmation lookup answered is_confirmed = true, in their
\* original order, none added and none twice; if a lookup (or getUnspentTxs)
\* fails the whole call fails.
C28_ConfirmedSubsequence ==
    (scan.kind = "getConfirmedUnspentTxs" /\ scan.pc = "idle") =>
        LET places == PlacesConfirmed(scan.got, 1) IN
        IF scan.res.ok
        THEN /\ scan.items = ConcatPages(scan.pages)
             /\ \A i \in 1..Len(scan.got) : scan.got[i] \in {"yes", "no"}
             /\ Len(scan.res.val) = Len(places)
             /\ \A k \in 1..Len(places) : scan.res.val[k] = scan.items[places[k]]
             /\ \A k, l \in 1..Len(scan.res.val) :
                    k # l => scan.res.val[k] # scan.res.val[l]
        ELSE /\ scan.res.val = <<>>
             /\ \/ \E i \in 1..Len(scan.got) : scan.got[i] = "failed"
                \/ scan.items = <<>> /\ Len(scan.pages) < Len(scan.reqs)

\* of two unspent outputs only the second was confirmed, its lookup having
\* settled before the first's
C28_KeptTheSecond ==
    /\ scan.kind = "getConfirmedUnspentTxs" /\ scan.pc = "idle" /\ scan.res.ok
    /\ scan.got = <<"no", "yes">>
    /\ scan.log[3] = <<"settled", 2>>
    /\ scan.res.val = <<scan.items[2]>>

\* What a getUnspentTxs call's requests and pages must be like, and its
\* result.
PagesInOrder ==
    scan.kind = "getUnspentTxs" =>
        /\ scan.reqs[1] = <<>>
        /\ \A j \in 1..Len(scan.pages) :
            /\ Len(scan.reqs) > j <=> Len(scan.pages[j]) = 100
            /\ Len(scan.reqs) > j => scan.reqs[j + 1] = scan.pages[j][100].txid
        /\ Len(scan.reqs) \in {Len(scan.pages), Len(scan.pages) + 1}
        /\ scan.pc = "page" <=> (scan.res = IdleScan.res /\ Len(scan.reqs) > Len(scan.pages))
        /\ (scan.pc = "idle" /\ Len(scan.reqs) = Len(scan.pages)) =>
            /\ scan.res.ok
            /\ Len(scan.res.val) = 100 * (Len(scan.pages) - 1)
                                        + Len(scan.pages[Len(scan.pages)])
            /\ \A j \in 1..Len(scan.pages) : \A k \in 1..Len(scan.pages[j]) :
                    scan.res.val[100 * (j - 1) + k] = scan.pages[j][k]

\* C29: getUnspentTxs asks for a further page, from the txid of the 100th
\* entry, exactly when the page just received has exactly 100 entries; it
\* returns the pages concatenated in the order of the requests; it ends as soon
\* as a page of another length arrives, and so it ends for every address whose
\* list comes to such a page.
C29_PagesUntilOneIsNotFull ==
    /\ []PagesInOrder
    /\ (scan.kind = "getUnspentTxs" /\ scan.pc = "page") ~> (scan.pc = "idle")

\* getUnspentTxs returned a full page and the one entry of the page after it
C29_ReturnedTwoPages ==
    /\ scan.kind = "getUnspentTxs" /\ scan.pc = "idle" /\ scan.res.ok
    /\ scan.reqs = << <<>>, <<"utxo", 1, 100>> >>
    /\ Len(scan.res.val) = 101
    /\ scan.res.val[101] = [txid |-> <<"utxo", 2, 1>>]

\* C27: in every chain client's transfer the sender address the transaction
\* is built with and the key it is signed with are derived for the same wallet
\* index: params.walletIndex when given, 0 otherwise.
C27_SenderAndKeyOfOneIndex ==
    /\ \A t \in Transfers :
        LET path == getFullDerivationPath(DefaultIndex(xfer[t].input)) IN
        /\ xfer[t].sender # <<>> => xfer[t].sender[3] = path
        /\ xfer[t].key # <<>> => xfer[t].key[3] = path
    /\ (op.name = "bch.transfer" /\ op.key # <<>>) =>
        LET path == getFullDerivationPath(DefaultIndex(op.input)) IN
        /\ op.built.sender[3] = path
        /\ op.key[3] = path

\* ------------------------------------- claims on the Bitcoin Cash client
\* C17: the configuration of a client is fixed at construction: no public
\* operation changes the network, the derivation paths or the explorer and
\* node endpoints, so getNetwork and getFullDerivationPath(i) answer the same
\* for the whole life of the client.
C17_ConfigurationFixed ==
    [][/\ BchGetNetwork(bchConfig') = BchGetNetwork(bchConfig)
       /\ BchGetHaskoinURL(bchConfig') = BchGetHaskoinURL(bchConfig)
       /\ BchGetNodeURL(bchConfig') = BchGetNodeURL(bchConfig)
       /\ \A x \in IndexInputs :
            BchGetFullDerivationPath(bchConfig', x) = BchGetFullDerivationPath(bchConfig, x)
      ]_vars

\* ------------------------------------------------ claims on the plans
\* The change of a plan: the value of its change output, 0 without one.
ChangeOf(plan) ==
    SumOf([k \in 1..Len(plan.outputs) |->
            IF plan.outputs[k].kind = "change" THEN plan.outputs[k].value ELSE 0])
HasChange(plan) == \E k \in 1..Len(plan.outputs) : plan.outputs[k].kind = "change"

C15_FailedFetchFailsCall ==
    \A kind \in {"btc", "ltc"} :
        (/\ op.name = kind \o ".getTransactions"
         /\ \E k \in 1..Len(op.args.fetched) : ~op.args.fetched[k]) =>
            ~op.res.ok /\ op.res.val = <<>>

\* the second fetch of a page failed, after the first had succeeded
C15_SecondFetchFailed ==
    /\ op.name = "ltc.getTransactions"
    /\ op.args.fetched = <<TRUE, FALSE>>
    /\ ~op.res.ok

\* The entries of txs at the positions offset <= index < offset + limit.
PageOf(txs, offset, limit) ==
    SelectSeq([i \in 1..Len(txs) |-> [index |-> i - 1, item |-> txs[i]]],
              LAMBDA e : offset <= e.index /\ e.index < offset + limit)

\* C16: getTransactions returns total = the number of transactions the
\* explorer reports and txs = the entries at positions offset <= index <
\* offset + limit, in the explorer's order; offset defaults to 0 and limit to
\* 10, and a supplied limit (0 included) is honoured.
C16_PageIsTheRequestedSlice ==
    \A kind \in HistoryKinds :
        (op.name = kind \o ".getTransactions" /\ op.res.ok) =>
            LET offset == IF op.args.offset.given THEN op.args.offset.v ELSE 0
                limit == IF op.args.limit.given THEN op.args.limit.v ELSE 10
                page == PageOf(op.args.txs, offset, limit)
            IN  /\ op.res.val.total = Len(op.args.txs)
                /\ Len(op.res.val.txs) = Len(page)
                /\ Len(op.res.val.txs) <= limit
                /\ \A k \in 1..Len(page) : op.res.val.txs[k].hash = page[k].item.txid

C18_InvalidPhraseBuildsNothing ==
    /\ [](\A h \in 1..Len(handles) : validatePhrase(handles[h].phrase))
    /\ [][\A u \in Unlockers :
            (unl[u].pc = "factory" /\ unl'[u].pc # "factory") =>
                IF unl[u].phrase = BadPhrase
                THEN /\ unl'[u].pc = "idle" /\ unl'[u].last = "Invalid phrase"
                     /\ handles' = handles /\ wallet' = wallet
                     /\ purgeCalls' = purgeCalls
                ELSE /\ Len(handles') = Len(handles) + 1
                     /\ unl'[u].newWallet = Len(handles')
                     /\ handles'[Len(handles')].phrase = unl[u].phrase
          ]_vars

\* an unlock with an invalid phrase was turned down by the factory, no wallet
\* having been built
C18_FactoryRejectedPhrase ==
    /\ handles = <<>>
    /\ \E u \in Unlockers : unl[u].pc = "idle" /\ unl[u].last = "Invalid phrase"

Definers == cr.defines \cup {0}
TimesCalled(l) == Cardinality({ i \in 1..Len(cr.called) : cr.called[i] = l })

\* C5: once the inits are through (the wallet factory is about to be invoked
\* or the client returned), each level's init hook has been invoked exactly
\* once, base level first and most specific level last; inits run one at a
\* time, and all of them before the wallet factory and the return.
C5_EachInitOnceBaseFirst ==
    /\ cr.pc \in {"unlock", "returned"} =>
        /\ \A l \in Definers : TimesCalled(l) = 1
        /\ \A i, j \in 1..Len(cr.called) : i < j => cr.called[i] < cr.called[j]
    /\ cr.pc = "init" => unl["u1"].pc = "idle" /\ handles = <<>> /\ ~cr.out

\* C6: a create call that returns a client has had every init and the unlock
\* succeed; with a wallet factory the client holds the wallet the factory
\* built, without one it holds none.  A call in which an init or the factory
\* failed returns no client.
C6_CreateAllOrNothing ==
    /\ cr.out =>
        /\ cr.pc = "returned" /\ ~cr.initFailed
        /\ cr.settled = Len(InitsOf(cr.depth, cr.defines))
        /\ IF cr.withFactory
           THEN /\ unl["u1"].last = "resolved"
                /\ wallet # Null /\ wallet = Len(handles)
                /\ validatePhrase(handles[wallet].phrase)
                /\ ClientGetAddress(wallet, Idx(0)).ok
           ELSE wallet = Null /\ handles = <<>>
    /\ cr.pc = "rejected" =>
        /\ ~cr.out
        /\ cr.initFailed \/ unl["u1"].last \in {"Invalid phrase", "purge rejected"}
    /\ (cr.initFailed \/ unl["u1"].last \in {"Invalid phrase", "purge rejected"}) => ~cr.out

\* a create call with a wallet factory has returned an unlocked client
C6_ReturnedUnlocked ==
    cr.pc = "returned" /\ cr.withFactory /\ wallet # Null /\ cr.defines # {}

\* ------------------------------------------------- claims on the lifecycle
\* A step of an unlock call whose factory rejects: the call, or the rejection.
FailingUnlockStep(u) ==
    \/ unl[u].pc = "idle" /\ unl'[u].pc = "factory" /\ ~validatePhrase(unl'[u].phrase)
    \/ unl[u].pc = "factory" /\ unl'[u].pc = "idle" /\ unl'[u].last = "Invalid phrase"

\* C2: an unlock whose factory rejects (invalid phrase) rejects, and no step
\* of it changes the wallet handle the client holds, invokes a purge, or
\* changes what getAddress returns for any index.
C2_FailedUnlockKeepsWallet ==
    [][ \A u \in Unlockers : FailingUnlockStep(u) =>
            /\ wallet' = wallet
            /\ purgeCalls' = purgeCalls
            /\ \A input \in IndexInputs :
                   ClientGetAddress(wallet, input)' = ClientGetAddress(wallet, input) ]_vars

\* an unlock called on an unlocked client was rejected for its phrase, the
\* client holds the wallet it held at the call, and getAddress returned on it
C2_RejectedOnUnlockedClient ==
    \E u \in Unlockers :
        /\ unl[u].last = "Invalid phrase"
        /\ unl[u].held # Null
        /\ wallet = unl[u].held
        /\ op.name = "getAddress" /\ op.res.ok
        /\ op.res = ClientGetAddress(wallet, op.input)

\* C4: once an unlock has succeeded on an unlocked client, address derivation
\* and key access on the handle it replaced fail.
C4_ReplacedHandleInvalidated ==
    \A h \in replaced : \A x \in Indices :
        ~WalletGetAddress(h, x).ok /\ ~WalletGetKeys(h, x).ok

\* C9: purgeClient on a client without a wallet changes nothing and resolves,
\* so that a second purgeClient in sequence leaves the client where the first
\* did; and no handle's purge is invoked more than once.
PurgeOfNothingStep(p) ==
    \/ prg[p].pc = "idle" /\ prg'[p].pc = "hook" /\ wallet = Null
    \/ prg[p].pc = "hook" /\ prg'[p].pc = "idle" /\ prg[p].old = Null

C9_PurgeIdempotent ==
    /\ [](\A h \in 1..MaxWallets : purgeCalls[h] <= 1)
    /\ [][ \A p \in Purgers : PurgeOfNothingStep(p) =>
                /\ wallet' = wallet
                /\ purgeCalls' = purgeCalls
                /\ handles' = handles
                /\ prg'[p].pc = "idle" => prg'[p].last = "resolved" ]_vars

\* An unlock that is replacing a wallet: its purgeClient took a handle off
\* the client and line 88 has not run yet.
Replacing(u) == unl[u].pc = "purging" /\ unl[u].old # Null

\* C22: replacing the wallet by unlock on an unlocked client is one atomic
\* swap: while the unlock is under way the client holds the old wallet or the
\* new one, never none, and getAddress never fails with 'client must be
\* unlocked'.
C22_ReplacementIsOneSwap ==
    \A u \in Unlockers : Replacing(u) =>
        /\ wallet \in {unl[u].old, unl[u].newWallet}
        /\ \A input \in IndexInputs : ClientGetAddress(wallet, input).err # LockedError

\* C23: whenever unlock rejects, because the wallet factory rejects or
\* because the old wallet's purge hook rejects, the client is as it was
\* before the call: an unlocked client still holds its previous handle, which
\* is as usable as before, and a client without a wallet still has none.
C23_RejectedUnlockChangesNothing ==
    [][ \A u \in Unlockers :
            /\ (unl[u].pc = "factory" /\ unl'[u].pc = "idle") =>
                    wallet' = wallet /\ purgeCalls' = purgeCalls
            /\ (unl[u].pc = "purging" /\ unl'[u].pc = "idle"
                    /\ unl'[u].last = "purge rejected") =>
                    wallet' = unl[u].old /\ purgeCalls'[unl[u].old] = 0 ]_vars

\* C24: every wallet handle that was attached to the client and no longer is
\* has been purged: under any interleaving of unlock and purgeClient calls, a
\* step that takes a handle off the client, or stores another over it, is one
\* in which (or before which) purgeClient has called that handle's purge.
C24_NoHandleDroppedUnpurged ==
    [][ (wallet # Null /\ wallet' # wallet) => purgeCalls'[wallet] > 0 ]_vars

\* the one wallet built was purged by a purgeClient, and a later purgeClient,
\* which found no wallet, has resolved
C9_SecondPurgeResolved ==
    /\ Len(handles) = 1 /\ purgeCalls[1] = 1 /\ wallet = Null
    /\ \E p \in Purgers : prg[p].pc = "idle" /\ prg[p].old = Null /\ prg[p].last = "resolved"

====
